---- MODULE Spec2Model ----
(***************************************************************************)
(* A model of the PHANTOM block-DAG engines of this repository:            *)
(*   - LazySet (lazy_set.py): a list of layer sets plus the indices of     *)
(*     the positive layers;                                                *)
(*   - PHANTOM (phantom.py): the brute-force colouring;                    *)
(*   - GreedyPHANTOM (greedy_phantom.py): the incremental colouring and    *)
(*     ordering.                                                           *)
(* An engine instance is a record whose fields carry the names of the      *)
(* attributes of the Python object.  Python dictionaries are functions     *)
(* (DOMAIN = the keys); a ChainMap is the sequence of the dictionaries it  *)
(* chains, each named by the block that owns it, so that a later change of *)
(* the block's dictionary is seen through the ChainMap as it is in Python. *)
(***************************************************************************)
EXTENDS Integers, Sequences, FiniteSets, TLC

\* ---------------------------------------------------------------- bounds
MaxBlocks == 4          \* number of blocks added to one DAG
MaxId == 3              \* global ids are drawn from 0 .. MaxId
MaxK == 1               \* k is drawn from 0 .. MaxK
MaxConfirmationDepth == 1   \* confirmation_depth is drawn from 0 .. MaxConfirmationDepth
MaxDepthDifference == 1     \* maximal_depth_difference is drawn from 0 .. MaxDepthDifference
MaxElem == 2            \* the elements of a LazySet are drawn from 0 .. MaxElem
MaxLayers == 3          \* number of layers (the list _sets) of a LazySet
MaxObjects == 2         \* number of set objects a caller supplies to a LazySet

\* ------------------------------------------------------------- constants
None == -1              \* Python's None (ids, heights and indices are >= 0)
Inf == 1000             \* float('inf')
NegInf == -1000         \* -float('inf')

GlobalIDs == 0 .. MaxId

\* ----------------------------------------------------------- small helpers
Keys(d) == DOMAIN d

EmptyDict == [x \in {} |-> None]

Max(S) == CHOOSE x \in S : \A y \in S : y <= x

Min(S) == CHOOSE x \in S : \A y \in S : x <= y

Range(seq) == {seq[i] : i \in 1 .. Len(seq)}

RECURSIVE SumSeq(_)
SumSeq(seq) == IF seq = <<>> THEN 0 ELSE Head(seq) + SumSeq(Tail(seq))

\* sorted(S): the ascending list of a set of integers
RECURSIVE sorted(_)
sorted(S) == IF S = {} THEN <<>> ELSE <<Min(S)>> \o sorted(S \ {Min(S)})

\* sorted(S, reverse=True)
RECURSIVE sorted_reverse(_)
sorted_reverse(S) == IF S = {} THEN <<>> ELSE <<Max(S)>> \o sorted_reverse(S \ {Max(S)})

\* ------------------------------------------------------------------ LazySet
\* A LazySet is [sets |-> the list _sets, positive_indices |-> the set
\* _positive_indices]; index i of the Python list is index i + 1 here.
LazySetEmpty == [sets |-> <<>>, positive_indices |-> {}]

lazy_update(L, other) ==
    IF other # {}
    THEN [sets |-> Append(L.sets, other),
          positive_indices |-> L.positive_indices \cup {Len(L.sets) + 1}]
    ELSE L

lazy_difference_update(L, other) ==
    IF other # {}
    THEN [sets |-> Append(L.sets, other), positive_indices |-> L.positive_indices]
    ELSE L

RECURSIVE lazy_update_all(_, _)
lazy_update_all(L, others) ==
    IF others = <<>> THEN L
    ELSE lazy_update_all(lazy_update(L, Head(others)), Tail(others))

RECURSIVE lazy_difference_update_all(_, _)
lazy_difference_update_all(L, others) ==
    IF others = <<>> THEN L
    ELSE lazy_difference_update_all(lazy_difference_update(L, Head(others)), Tail(others))

\* LazySet(base_set, negative_sets, positive_sets)
LazySetNew(base_set, negative_sets, positive_sets) ==
    lazy_update_all(
        lazy_difference_update_all(lazy_update(LazySetEmpty, base_set), negative_sets),
        positive_sets)

\* LazySet.add(elem): update({elem}) -> lazy_update(set({elem}))
LazySetAdd(L, elem) == lazy_update(L, {elem})

\* a variant of __contains__ that ignores the order of the layers
RECURSIVE contains_in_a_positive_layer(_, _, _)
contains_in_a_positive_layer(L, item, index) ==
    IF index = 0 THEN FALSE
    ELSE IF item \in L.sets[index] /\ index \in L.positive_indices THEN TRUE
    ELSE contains_in_a_positive_layer(L, item, index - 1)

\* __contains__: the latest layer that holds the item decides
RECURSIVE contains_from(_, _, _)
contains_from(L, item, index) ==
    IF index = 0 THEN FALSE
    ELSE IF item \in L.sets[index] THEN index \in L.positive_indices
    ELSE contains_from(L, item, index - 1)

LazySetContains(L, item) == contains_from(L, item, Len(L.sets))

\* __iter__: layers from latest to earliest; a negative layer joins
\* do_not_yield, a positive layer yields what is not in do_not_yield.
\* The result is the set of the yielded items.
RECURSIVE iter_from(_, _, _)
iter_from(L, index, do_not_yield) ==
    IF index = 0 THEN {}
    ELSE IF index \notin L.positive_indices
         THEN iter_from(L, index - 1, do_not_yield \cup L.sets[index])
         ELSE (L.sets[index] \ do_not_yield)
              \cup iter_from(L, index - 1, do_not_yield \cup L.sets[index])

LazySetIter(L) == iter_from(L, Len(L.sets), {})

\* the items a positive layer yields, in the order of the layer's own
\* iteration (taken here as ascending)
RECURSIVE items_from(_, _, _)
items_from(L, index, do_not_yield) ==
    IF index = 0 THEN <<>>
    ELSE IF index \notin L.positive_indices
         THEN items_from(L, index - 1, do_not_yield \cup L.sets[index])
         ELSE sorted(L.sets[index] \ do_not_yield)
              \o items_from(L, index - 1, do_not_yield \cup L.sets[index])

\* __iter__ as the sequence of the yielded items
LazySetItems(L) == items_from(L, Len(L.sets), {})

\* __len__ counts the iteration
LazySetLen(L) == Len(LazySetItems(L))

\* flatten_to_set: the first positive layer, then every later layer applied
\* in list order (|= for a positive layer, -= for a negative one)
RECURSIVE flatten_apply(_, _, _)
flatten_apply(L, index, base_set) ==
    IF index > Len(L.sets) THEN base_set
    ELSE flatten_apply(L, index + 1,
                       IF index \in L.positive_indices
                       THEN base_set \cup L.sets[index]
                       ELSE base_set \ L.sets[index])

flatten_to_set(L) ==
    IF L.positive_indices = {} THEN {}
    ELSE LET base_set_index == Min(L.positive_indices)
         IN flatten_apply(L, base_set_index + 1, L.sets[base_set_index])

\* the outcome of a call: the exception it raised, if any, with its
\* arguments
NoException == [type |-> "", args |-> <<>>]

KeyError(args) == [type |-> "KeyError", args |-> args]

\* LazySet.discard(elem): difference_update({elem}) ->
\* lazy_difference_update(set({elem}))
LazySetDiscard(L, elem) == lazy_difference_update(L, {elem})

\* a variant of remove that does not test membership
remove_without_test(L, elem) ==
    [lazy_set |-> LazySetDiscard(L, elem), raised |-> NoException]

\* LazySet.remove(elem): the LazySet after the call and what the call raised
LazySetRemove(L, elem) ==
    IF ~LazySetContains(L, elem)
    THEN [lazy_set |-> L, raised |-> KeyError(<<elem>>)]
    ELSE [lazy_set |-> LazySetDiscard(L, elem), raised |-> NoException]

\* the items the first yielding layer of __iter__ yields: next(iter(self))
\* is one of them, whichever the layer's own iteration gives first
RECURSIVE first_items_from(_, _, _)
first_items_from(L, index, do_not_yield) ==
    IF index = 0 THEN {}
    ELSE IF index \in L.positive_indices /\ L.sets[index] \ do_not_yield # {}
         THEN L.sets[index] \ do_not_yield
         ELSE first_items_from(L, index - 1, do_not_yield \cup L.sets[index])

\* pop, which LazySet inherits from MutableSet: next(iter(self)) is
\* discarded and returned; an exhausted iteration raises KeyError without
\* arguments.  value is the item the iteration gives.
LazySetPop(L, value) ==
    IF first_items_from(L, Len(L.sets), {}) = {}
    THEN [lazy_set |-> L, raised |-> KeyError(<<>>)]
    ELSE [lazy_set |-> LazySetDiscard(L, value), raised |-> NoException]

\* LazySet.clear
LazySetClear(L) == LazySetEmpty

\* flatten: flatten_to_set returns before it clears the layers when no
\* layer is positive; otherwise clear() and lazy_update(base_set)
flatten(L) ==
    IF L.positive_indices = {} THEN L
    ELSE lazy_update(LazySetEmpty, flatten_to_set(L))


\* ---------------------------------------------- LazySet over set objects
\* self._sets holds references to the set objects it was given, not their
\* values.  objects is the list of the set objects alive (an object is
\* named by its place in the list): the first MaxObjects are the objects
\* the caller supplied and still holds, a later one is a copy flatten made.
\* sets lists the objects of the layers.
SharedLazySet(objects) ==
    [objects |-> objects, sets |-> <<>>, positive_indices |-> {}]

\* lazy_update(other) with other a set object
shared_lazy_update(s, other) ==
    IF s.objects[other] # {}
    THEN [s EXCEPT !.positive_indices = @ \cup {Len(s.sets) + 1},
                   !.sets = Append(@, other)]
    ELSE s

\* lazy_difference_update(other) with other a set object
shared_lazy_difference_update(s, other) ==
    IF s.objects[other] # {} THEN [s EXCEPT !.sets = Append(@, other)] ELSE s

\* the LazySet with the present values of its layers
shared_values(s) ==
    [sets |-> [i \in 1 .. Len(s.sets) |-> s.objects[s.sets[i]]],
     positive_indices |-> s.positive_indices]

\* the while loop of flatten_to_set: "base_set |= self._sets[index]" and
\* "base_set -= self._sets[index]" change the object base_set in place and
\* read the layer as it is at that moment
RECURSIVE shared_flatten_apply(_, _, _, _, _)
shared_flatten_apply(objects, sets, positive_indices, index, base_set) ==
    IF index > Len(sets) THEN objects
    ELSE shared_flatten_apply(
             [objects EXCEPT ![base_set] =
                 IF index \in positive_indices THEN @ \cup objects[sets[index]]
                 ELSE @ \ objects[sets[index]]],
             sets, positive_indices, index + 1, base_set)

\* an object no one refers to any more is freed: the objects left are the
\* supplied ones and the copy, if the only layer is a copy
shared_collect(s) ==
    LET supplied == SubSeq(s.objects, 1, MaxObjects)
    IN IF s.sets = <<>> \/ s.sets[1] <= MaxObjects THEN [s EXCEPT !.objects = supplied]
       ELSE [s EXCEPT !.objects = Append(supplied, s.objects[s.sets[1]]),
                      !.sets = <<MaxObjects + 1>>]

\* flatten_to_set(modify) / flatten(modify): the base set is the first
\* positive layer itself (modify) or a copy of it
shared_flatten(s, modify) ==
    IF s.positive_indices = {} THEN s
    ELSE LET base_set_index == Min(s.positive_indices)
             objects == IF modify THEN s.objects
                        ELSE Append(s.objects, s.objects[s.sets[base_set_index]])
             base_set == IF modify THEN s.sets[base_set_index] ELSE Len(objects)
         IN shared_collect(
                shared_lazy_update(
                    SharedLazySet(shared_flatten_apply(objects, s.sets,
                        s.positive_indices, base_set_index + 1, base_set)),
                    base_set))

\* ------------------------------------------------------------- ChainMap
\* A dictionary reference is a block id (the dictionary stored at that
\* block's node) or None (the empty dictionary a new ChainMap starts with).
blue_dict_of(G, ref) == IF ref = None THEN EmptyDict ELSE G[ref].blue_diff_past_order

red_dict_of(G, ref) == IF ref = None THEN EmptyDict ELSE G[ref].red_diff_past_order

\* the list `maps` of self._blue_past_order / self._red_past_order
blue_past_order_maps(s) ==
    [i \in 1 .. Len(s.blue_past_order) |-> blue_dict_of(s.G, s.blue_past_order[i])]

red_past_order_maps(s) ==
    [i \in 1 .. Len(s.red_past_order) |-> red_dict_of(s.G, s.red_past_order[i])]

\* ChainMap.keys()
ChainMapKeys(maps) == UNION {DOMAIN maps[i] : i \in 1 .. Len(maps)}

\* ChainMap.get(key, None): the first map that holds the key answers
ChainMapGet(maps, key) ==
    IF key \in ChainMapKeys(maps)
    THEN maps[Min({i \in 1 .. Len(maps) : key \in DOMAIN maps[i]})][key]
    ELSE None

\* self._past_order = ChainMap(self._blue_past_order, self._red_past_order)
past_order_maps(s) == blue_past_order_maps(s) \o red_past_order_maps(s)

\* self._antipast_order = ChainMap(self._blue_antipast_order, self._red_antipast_order)
antipast_order_maps(s) == <<s.blue_antipast_order, s.red_antipast_order>>

\* self._coloring_order = ChainMap(self._blue_past_order, self._blue_antipast_order);
\* self._coloring = self._coloring_order.keys()
coloring(s) == ChainMapKeys(blue_past_order_maps(s)) \cup Keys(s.blue_antipast_order)

\* self._mapping = ChainMap(self._past_order, self._antipast_order)
mapping_maps(s) == past_order_maps(s) \o antipast_order_maps(s)

\* ------------------------------------------------------- GreedyPHANTOM
\* GreedyPHANTOM.__init__ (and PHANTOM.__init__).  self._antipast is
\* `keys-view | LazySet`: Python evaluates the union once, to a plain set,
\* when the engine is constructed; no later statement assigns it.
GreedyPHANTOM(k) ==
    LET antipast_order == <<EmptyDict, EmptyDict>>
        uncolored == LazySetEmpty
    IN [k |-> k,
        nodes |-> <<>>,
        G |-> EmptyDict,
        leaves |-> {},
        genesis_gid |-> None,
        coloring_tip_gid |-> None,
        coloring_chain |-> {},
        k_chain |-> [global_ids |-> {}, minimal_height |-> Inf],
        blue_past_order |-> <<None>>,
        red_past_order |-> <<None>>,
        blue_antipast_order |-> EmptyDict,
        red_antipast_order |-> EmptyDict,
        uncolored_unordered_antipast |-> uncolored,
        antipast |-> ChainMapKeys(antipast_order) \cup LazySetIter(uncolored)]

\* a variant of _get_extreme_blue that breaks ties by the larger id
get_extreme_blue_larger_id(G, global_ids, bluest) ==
    IF global_ids = {} THEN None
    ELSE LET key(gid) == G[gid].blue_number
             extreme == IF bluest THEN Max({key(g) : g \in global_ids})
                        ELSE Min({key(g) : g \in global_ids})
         IN Max({g \in global_ids : key(g) = extreme})

\* _get_extreme_blue: max / min of sorted(global_ids) keyed by the blue
\* number returns the first extreme of the ascending list, the smallest id
get_extreme_blue(G, global_ids, bluest) ==
    IF global_ids = {} THEN None
    ELSE LET key(gid) == G[gid].blue_number
             extreme == IF bluest THEN Max({key(g) : g \in global_ids})
                        ELSE Min({key(g) : g \in global_ids})
         IN Min({g \in global_ids : key(g) = extreme})

get_bluest(G, global_ids) == get_extreme_blue(G, global_ids, TRUE)

\* _coloring_chain_generator: the list of the ids it yields
RECURSIVE coloring_chain_generator(_, _)
coloring_chain_generator(G, cur_gid) ==
    IF cur_gid = None THEN <<>>
    ELSE <<cur_gid>> \o coloring_chain_generator(G, G[cur_gid].coloring_parent)

\* a variant of _local_tip_to_global_tip_generator without the second
\* loop: the blocks of the main coloring chain are not yielded
local_tip_generator(s, local_tip_global_id) ==
    LET local_chain == coloring_chain_generator(s.G, local_tip_global_id)
    IN [i \in 1 .. Len(local_chain) |->
          [global_id |-> local_chain[i],
           is_main_coloring_chain |-> local_chain[i] \in s.coloring_chain,
           is_intersection |-> local_chain[i] \in s.coloring_chain]]

\* _local_tip_to_global_tip_generator: the list of the tuples it yields.
\* coloring_chain is the set self._coloring_chain the first loop tests.
local_tip_to_global_tip_generator(s, local_tip_global_id) ==
    LET local_chain == coloring_chain_generator(s.G, local_tip_global_id)
        hits == {i \in 1 .. Len(local_chain) : local_chain[i] \in s.coloring_chain}
        intersection_gid == IF hits = {} THEN None ELSE local_chain[Min(hits)]
        local_len == IF hits = {} THEN Len(local_chain) ELSE Min(hits) - 1
        local_part == [i \in 1 .. local_len |->
                         [global_id |-> local_chain[i],
                          is_main_coloring_chain |-> FALSE,
                          is_intersection |-> FALSE]]
        intersection_part ==
            IF hits = {} THEN <<>>
            ELSE <<[global_id |-> intersection_gid,
                    is_main_coloring_chain |-> TRUE,
                    is_intersection |-> TRUE]>>
        main_chain == coloring_chain_generator(s.G, s.coloring_tip_gid)
        stops == {i \in 1 .. Len(main_chain) : main_chain[i] = intersection_gid}
        main_len == IF stops = {} THEN Len(main_chain) ELSE Min(stops) - 1
        main_part == [i \in 1 .. main_len |->
                        [global_id |-> main_chain[i],
                         is_main_coloring_chain |-> TRUE,
                         is_intersection |-> FALSE]]
    IN local_part \o intersection_part \o main_part

\* _coloring_rule_2
RECURSIVE coloring_rule_2_walk(_, _, _)
coloring_rule_2_walk(G, k_chain, chain) ==
    IF chain = <<>> THEN FALSE
    ELSE IF G[Head(chain)].height < k_chain.minimal_height THEN FALSE
    ELSE IF Head(chain) \in k_chain.global_ids THEN TRUE
    ELSE coloring_rule_2_walk(G, k_chain, Tail(chain))

coloring_rule_2(G, k_chain, global_id) ==
    coloring_rule_2_walk(G, k_chain, coloring_chain_generator(G, global_id))

\* a variant of the loop of _get_k_chain that stops once the blue count
\* reaches k
RECURSIVE get_k_chain_walk_stop_at_k(_, _, _, _, _)
get_k_chain_walk_stop_at_k(G, k, chain, acc, blue_count) ==
    IF chain = <<>> \/ blue_count >= k THEN acc
    ELSE get_k_chain_walk_stop_at_k(G, k, Tail(chain),
             [global_ids |-> acc.global_ids \cup {Head(chain)},
              minimal_height |-> G[Head(chain)].height],
             blue_count + Cardinality(Keys(G[Head(chain)].blue_diff_past_order)))

\* _get_k_chain: the loop over the coloring chain of global_id
RECURSIVE get_k_chain_walk(_, _, _, _, _)
get_k_chain_walk(G, k, chain, acc, blue_count) ==
    IF chain = <<>> \/ blue_count > k THEN acc
    ELSE get_k_chain_walk(G, k, Tail(chain),
             [global_ids |-> acc.global_ids \cup {Head(chain)},
              minimal_height |-> G[Head(chain)].height],
             blue_count + Cardinality(Keys(G[Head(chain)].blue_diff_past_order)))

get_k_chain(G, k, global_id) ==
    get_k_chain_walk(G, k, coloring_chain_generator(G, global_id),
                     [global_ids |-> {}, minimal_height |-> Inf], 0)

\* a variant of _is_a_bluer_than_b without the tie-break on the ids
is_a_bluer_than_b_no_tie_break(G, a, b) == G[a].blue_number > G[b].blue_number

\* _is_a_bluer_than_b
is_a_bluer_than_b(G, a, b) ==
    \/ G[a].blue_number > G[b].blue_number
    \/ (G[a].blue_number = G[b].blue_number /\ a < b)

\* _is_max_coloring_tip
is_max_coloring_tip(s, global_id) ==
    IF s.coloring_tip_gid = None THEN TRUE
    ELSE is_a_bluer_than_b(s.G, global_id, s.coloring_tip_gid)

\* the per-block key lists both _get_past and _get_antipast collect from the
\* generator: for each yielded block its blue keys, then its red keys
RECURSIVE diff_keys_of(_, _)
diff_keys_of(G, blocks) ==
    IF blocks = <<>> THEN <<>>
    ELSE <<Keys(G[Head(blocks).global_id].blue_diff_past_order),
           Keys(G[Head(blocks).global_id].red_diff_past_order)>>
         \o diff_keys_of(G, Tail(blocks))

\* _get_past, as the LazySet it returns (the empty set for None)
get_past(s, global_id) ==
    IF global_id = None THEN LazySetEmpty
    ELSE LET gen == local_tip_to_global_tip_generator(s, global_id)
             positive_chain == SelectSeq(gen,
                 LAMBDA c : ~c.is_intersection /\ ~c.is_main_coloring_chain)
             negative_chain == SelectSeq(gen,
                 LAMBDA c : ~c.is_intersection /\ c.is_main_coloring_chain)
         IN LazySetNew(ChainMapKeys(past_order_maps(s)),
                       <<UNION Range(diff_keys_of(s.G, negative_chain))>>,
                       <<UNION Range(diff_keys_of(s.G, positive_chain))>>)


\* _get_antipast, as the set or LazySet it returns.  For None it is
\* self._mapping.keys(); for the coloring tip it is self._antipast itself.
get_antipast(s, global_id) ==
    IF global_id = None THEN lazy_update(LazySetEmpty, ChainMapKeys(mapping_maps(s)))
    ELSE IF global_id = s.coloring_tip_gid THEN lazy_update(LazySetEmpty, s.antipast)
    ELSE LET gen == local_tip_to_global_tip_generator(s, global_id)
             negative_sets == diff_keys_of(s.G, SelectSeq(gen,
                 LAMBDA c : ~c.is_main_coloring_chain \/ c.is_intersection))
             positive_sets == diff_keys_of(s.G, SelectSeq(gen,
                 LAMBDA c : ~(~c.is_main_coloring_chain \/ c.is_intersection)))
         IN lazy_difference_update_all(
                LazySetNew(s.antipast, <<{}>>, positive_sets), negative_sets)

\* the while loop of _update_diff_coloring_of_block: a popped block is
\* skipped when it is already coloured or not in parent_antipast, otherwise
\* its parents are queued and it is coloured.  The result is the set of the
\* coloured blocks.
RECURSIVE diff_past_walk(_, _, _, _)
diff_past_walk(G, diff_past_queue, colored, parent_antipast) ==
    LET popped == {g \in diff_past_queue :
                      g \notin colored /\ LazySetContains(parent_antipast, g)}
    IN IF popped = {} THEN colored
       ELSE diff_past_walk(G, UNION {G[g].parents : g \in popped},
                           colored \cup popped, parent_antipast)

\* a variant of _update_diff_coloring_of_block that counts the block itself
\* in its blue number
update_diff_coloring_of_block_counting_self(s, global_id) ==
    LET k_chain == get_k_chain(s.G, s.k, global_id)
        parent_antipast == get_antipast(s, s.G[global_id].coloring_parent)
        colored == diff_past_walk(s.G, s.G[global_id].parents, {}, parent_antipast)
        blue == {g \in colored : coloring_rule_2(s.G, k_chain, g)}
        blue_diff_past_order == [g \in blue |-> None]
        red_diff_past_order == [g \in colored \ blue |-> None]
    IN [s EXCEPT !.G[global_id].blue_diff_past_order = blue_diff_past_order,
                 !.G[global_id].red_diff_past_order = red_diff_past_order,
                 !.G[global_id].blue_number = @ + Cardinality(Keys(blue_diff_past_order)) + 1]

\* _update_diff_coloring_of_block (_color_block puts a block with value
\* None in the blue or in the red dictionary, by _coloring_rule_2)
update_diff_coloring_of_block(s, global_id) ==
    LET k_chain == get_k_chain(s.G, s.k, global_id)
        parent_antipast == get_antipast(s, s.G[global_id].coloring_parent)
        colored == diff_past_walk(s.G, s.G[global_id].parents, {}, parent_antipast)
        blue == {g \in colored : coloring_rule_2(s.G, k_chain, g)}
        blue_diff_past_order == [g \in blue |-> None]
        red_diff_past_order == [g \in colored \ blue |-> None]
    IN [s EXCEPT !.G[global_id].blue_diff_past_order = blue_diff_past_order,
                 !.G[global_id].red_diff_past_order = red_diff_past_order,
                 !.G[global_id].blue_number = @ + Cardinality(Keys(blue_diff_past_order))]

\* _update_past_coloring_according_to
update_past_coloring_according_to(s, new_tip_gid) ==
    LET \* the antipast orders go back to the uncoloured set; _clear_antipast_order
        uncolored1 == lazy_update(lazy_update(s.uncolored_unordered_antipast,
                                              Keys(s.blue_antipast_order)),
                                  Keys(s.red_antipast_order))
        blue_antipast_order == EmptyDict
        red_antipast_order == EmptyDict
        \* add the tips to the antipast; the old tip is looked up in the
        \* blue antipast order that was just replaced
        uncolored2 == LazySetAdd(uncolored1, new_tip_gid)
        uncolored3 == IF s.coloring_tip_gid # None
                         /\ s.coloring_tip_gid \in Keys(blue_antipast_order)
                      THEN LazySetAdd(uncolored2, s.coloring_tip_gid)
                      ELSE uncolored2
        gen == local_tip_to_global_tip_generator(s, new_tip_gid)
        removed == SelectSeq(gen, LAMBDA c : ~c.is_intersection /\ c.is_main_coloring_chain)
        added == SelectSeq(gen, LAMBDA c : ~c.is_intersection /\ ~c.is_main_coloring_chain)
        \* one maps.pop() of each past order per block that leaves the chain
        kept == Len(s.blue_past_order) - Len(removed)
        \* the j-th pop takes the j-th dictionary from the end of the list
        popped_keys == [i \in 1 .. 2 * Len(removed) |->
            IF i % 2 = 1
            THEN Keys(blue_dict_of(s.G,
                     s.blue_past_order[Len(s.blue_past_order) + 1 - ((i + 1) \div 2)]))
            ELSE Keys(red_dict_of(s.G,
                     s.red_past_order[Len(s.red_past_order) + 1 - (i \div 2)]))]
        uncolored4 == lazy_update_all(uncolored3, popped_keys)
        added_ids == [i \in 1 .. Len(added) |-> added[i].global_id]
        uncolored5 == lazy_difference_update_all(uncolored4, diff_keys_of(s.G, added))
    IN [s EXCEPT !.blue_antipast_order = blue_antipast_order,
                 !.red_antipast_order = red_antipast_order,
                 !.coloring_chain = (@ \ {c.global_id : c \in Range(removed)})
                                        \cup Range(added_ids),
                 !.blue_past_order = SubSeq(@, 1, kept) \o added_ids,
                 !.red_past_order = SubSeq(@, 1, kept) \o added_ids,
                 !.coloring_tip_gid = new_tip_gid,
                 !.uncolored_unordered_antipast = flatten(uncolored5)]

\* "self._k_chain = self._get_k_chain(global_id)"
update_k_chain(s, global_id) ==
    [s EXCEPT !.k_chain = get_k_chain(s.G, s.k, global_id)]

\* the end of _update_max_coloring: a genesis that left the coloring chain
\* is replaced by the least blue block of the chain
update_genesis(s) ==
    IF s.genesis_gid \notin s.coloring_chain
    THEN [s EXCEPT !.genesis_gid = get_extreme_blue(s.G, s.coloring_chain, FALSE)]
    ELSE s

\* _update_max_coloring
update_max_coloring(s, global_id) ==
    IF is_max_coloring_tip(s, global_id)
    THEN update_genesis(
             update_k_chain(update_past_coloring_according_to(s, global_id), global_id))
    ELSE s

\* GreedyPHANTOM._update_coloring_incrementally; the node and its edges were
\* made by PHANTOM.add
update_coloring_incrementally(s, global_id) ==
    LET parents == s.G[global_id].parents
        coloring_parent == get_bluest(s.G, parents)
        s1 == [s EXCEPT
                 !.G[global_id].self_order_index = None,
                 !.G[global_id].coloring_parent = coloring_parent,
                 !.G[global_id].blue_diff_past_order = EmptyDict,
                 !.G[global_id].red_diff_past_order = EmptyDict,
                 !.G[global_id].height =
                     IF coloring_parent # None
                     THEN Max({s.G[parent].height : parent \in parents}) + 1
                     ELSE 0,
                 !.G[global_id].blue_number =
                     IF coloring_parent # None THEN s.G[coloring_parent].blue_number ELSE 0,
                 !.uncolored_unordered_antipast = LazySetAdd(@, global_id)]
    IN update_max_coloring(update_diff_coloring_of_block(s1, global_id), global_id)


\* sort_blocks of _calculate_topological_order: the reds (descending), then
\* the blues (descending), then the coloring parent; the caller pops from
\* the end of the list
sort_blocks(last_block_gid, later_blocks, to_sort, unsorted) ==
    LET remaining_gids == (to_sort \ {last_block_gid}) \cap unsorted
        blue_gids_set == remaining_gids \cap later_blocks
        blue_gids_list == sorted_reverse(blue_gids_set)
        red_gids_list == sorted_reverse(remaining_gids \ blue_gids_set)
    IN red_gids_list \o blue_gids_list
       \o (IF last_block_gid # None THEN <<last_block_gid>> ELSE <<>>)

\* the while loop of _calculate_topological_order
RECURSIVE topological_order_walk(_, _, _, _, _)
topological_order_walk(G, to_order, ordered, coloring_keys, unordered) ==
    IF to_order = <<>> THEN ordered
    ELSE LET cur_gid == to_order[Len(to_order)]
             rest == SubSeq(to_order, 1, Len(to_order) - 1)
             cur_parents == G[cur_gid].parents \cap unordered
         IN IF cur_gid \in Range(ordered)
            THEN topological_order_walk(G, rest, ordered, coloring_keys, unordered)
            ELSE IF cur_parents \subseteq Range(ordered)
            THEN topological_order_walk(G, rest, Append(ordered, cur_gid),
                                        coloring_keys, unordered)
            ELSE topological_order_walk(G,
                     rest \o <<cur_gid>>
                          \o sort_blocks(G[cur_gid].coloring_parent, coloring_keys,
                                         cur_parents, unordered),
                     ordered, coloring_keys, unordered)

calculate_topological_order(G, coloring_parent_gid, leaves, coloring_keys, unordered) ==
    topological_order_walk(G,
        sort_blocks(coloring_parent_gid, coloring_keys, leaves, unordered),
        <<>>, coloring_keys, unordered)

\* _update_topological_order_in_dicts: the two dictionaries after the loop.
\* An ordered block that is no key of blue_dict becomes a key of red_dict.
update_topological_order_in_dicts(G, blue_dict, red_dict, leaves, coloring_parent_gid) ==
    LET starting_index ==
            IF coloring_parent_gid # None /\ G[coloring_parent_gid].self_order_index # None
            THEN G[coloring_parent_gid].self_order_index
            ELSE 0
        ordered == calculate_topological_order(G, coloring_parent_gid, leaves,
                       Keys(blue_dict), Keys(blue_dict) \cup Keys(red_dict))
        new_lid(cur_gid) ==
            (CHOOSE i \in 1 .. Len(ordered) : ordered[i] = cur_gid) - 1 + starting_index
        to_red == Range(ordered) \ Keys(blue_dict)
    IN [blue_dict |-> [g \in Keys(blue_dict) |->
                          IF g \in Range(ordered) THEN new_lid(g) ELSE blue_dict[g]],
        red_dict |-> [g \in Keys(red_dict) \cup to_red |->
                          IF g \in to_red THEN new_lid(g) ELSE red_dict[g]]]

\* _update_self_order_index
update_self_order_index(s, global_id) ==
    LET own == Cardinality(Keys(s.G[global_id].blue_diff_past_order))
               + Cardinality(Keys(s.G[global_id].red_diff_past_order))
        coloring_parent_gid == s.G[global_id].coloring_parent
    IN [s EXCEPT !.G[global_id].self_order_index =
            IF coloring_parent_gid # None
               /\ s.G[coloring_parent_gid].self_order_index # None
            THEN own + s.G[coloring_parent_gid].self_order_index
            ELSE own]

\* GreedyPHANTOM._update_topological_order_incrementally
update_topological_order_incrementally(s, global_id) ==
    LET dicts == update_topological_order_in_dicts(s.G,
                     s.G[global_id].blue_diff_past_order,
                     s.G[global_id].red_diff_past_order,
                     s.G[global_id].parents,
                     s.G[global_id].coloring_parent)
        s1 == [s EXCEPT !.G[global_id].blue_diff_past_order = dicts.blue_dict,
                        !.G[global_id].red_diff_past_order = dicts.red_dict]
    IN update_self_order_index(s1, global_id)

\* the node PHANTOM.add makes, before the engine fills the derived fields
NewNode(parents) ==
    [parents |-> parents,
     self_order_index |-> None,
     coloring_parent |-> None,
     blue_diff_past_order |-> EmptyDict,
     red_diff_past_order |-> EmptyDict,
     height |-> 0,
     blue_number |-> 0]

\* a variant of add that leaves the parents of the new block among the leaves
add_keeping_parents_as_leaves(s, global_id, parents) ==
    LET s1 == [s EXCEPT !.nodes = Append(@, global_id),
                        !.G = (global_id :> NewNode(parents)) @@ @,
                        !.leaves = @ \cup {global_id}]
    IN update_topological_order_incrementally(
           update_coloring_incrementally(s1, global_id), global_id)

\* PHANTOM.add as GreedyPHANTOM runs it: node, edges, leaves, then the
\* colouring and the ordering
add(s, global_id, parents) ==
    LET s1 == [s EXCEPT !.nodes = Append(@, global_id),
                        !.G = (global_id :> NewNode(parents)) @@ @,
                        !.leaves = (@ \ parents) \cup {global_id}]
    IN update_topological_order_incrementally(
           update_coloring_incrementally(s1, global_id), global_id)

\* _update_antipast_coloring: every uncoloured block gets the value None in
\* the blue or in the red antipast order, by the main k-chain
update_antipast_coloring(s) ==
    LET uncolored == LazySetIter(s.uncolored_unordered_antipast)
        blue == {g \in uncolored : coloring_rule_2(s.G, s.k_chain, g)}
        red == uncolored \ blue
    IN [s EXCEPT
          !.blue_antipast_order =
              [g \in Keys(@) \cup blue |-> IF g \in blue THEN None ELSE @[g]],
          !.red_antipast_order =
              [g \in Keys(@) \cup red |-> IF g \in red THEN None ELSE @[g]],
          !.uncolored_unordered_antipast = LazySetEmpty]

\* _get_coloring: the engine after the call and the set it returns
get_coloring(s) ==
    LET s1 == update_antipast_coloring(s)
    IN [dag |-> s1, value |-> coloring(s1)]

\* _is_blue
is_blue(s, global_id) ==
    LET s1 == update_antipast_coloring(s)
    IN [dag |-> s1, value |-> global_id \in coloring(s1)]

\* the antipast orders take the dictionaries
\* _update_topological_order_in_dicts has filled
order_antipast_with(s, dicts) ==
    [s EXCEPT !.blue_antipast_order = dicts.blue_dict,
              !.red_antipast_order = dicts.red_dict]

\* the call of _update_topological_order_in_dicts in _get_local_id, on the
\* antipast orders
order_antipast(s) ==
    order_antipast_with(s,
        update_topological_order_in_dicts(s.G, s.blue_antipast_order,
            s.red_antipast_order, s.leaves, s.coloring_tip_gid))

\* the end of _get_local_id: the lookup in the mapping, None read as inf
local_id_in_mapping(s, local_id) ==
    [dag |-> s, value |-> IF local_id = None THEN Inf ELSE local_id]

\* "local_id = self._mapping.get(global_id, None)"
lookup_local_id(s, global_id) ==
    local_id_in_mapping(s, ChainMapGet(mapping_maps(s), global_id))

\* GreedyPHANTOM._get_local_id: the engine after the call and the local id
get_local_id(s, global_id) ==
    lookup_local_id(
        IF ChainMapGet(mapping_maps(s), global_id) = None
           \/ LazySetLen(s.uncolored_unordered_antipast) > 0
        THEN order_antipast(update_antipast_coloring(s))
        ELSE s,
        global_id)

\* Python's True and False where a result may also be None
PyBool(b) == IF b THEN 1 ELSE 0

\* the comparison of the two local ids; the engine is the one the second
\* _get_local_id leaves
compare_local_ids(lid_a, lid_b) ==
    [dag |-> lid_b.dag, value |-> PyBool(lid_a.value <= lid_b.value)]

\* "self._get_local_id(a) <= self._get_local_id(b)": the id of a is read
\* first, the id of b on the engine that call leaves
local_id_of_a_then_b(lid_a, b) ==
    compare_local_ids(lid_a, get_local_id(lid_a.dag, b))

\* PHANTOM.is_a_before_b on the greedy engine
is_a_before_b(s, a, b) ==
    LET has_a == a \in DOMAIN s.G
        has_b == b \in DOMAIN s.G
    IN IF ~has_a /\ ~has_b THEN [dag |-> s, value |-> None]
       ELSE IF has_a /\ ~has_b THEN [dag |-> s, value |-> PyBool(TRUE)]
       ELSE IF ~has_a /\ has_b THEN [dag |-> s, value |-> PyBool(FALSE)]
       ELSE local_id_of_a_then_b(get_local_id(s, a), b)

\* the loop of GreedyPHANTOM.get_depth over the coloring chain of the tip
RECURSIVE get_depth_walk(_, _, _, _)
get_depth_walk(G, chain, global_id, depth) ==
    IF chain = <<>> THEN 0
    ELSE IF global_id \in Keys(G[Head(chain)].red_diff_past_order) THEN 0
    ELSE IF global_id \in Keys(G[Head(chain)].blue_diff_past_order) THEN depth
    ELSE get_depth_walk(G, Tail(chain), global_id,
                        depth + Cardinality(Keys(G[Head(chain)].blue_diff_past_order)))

\* GreedyPHANTOM.get_depth
get_depth(s, global_id) ==
    IF global_id \notin DOMAIN s.G THEN NegInf
    ELSE IF global_id \in s.antipast THEN 0
    ELSE get_depth_walk(s.G, coloring_chain_generator(s.G, s.coloring_tip_gid),
                        global_id, 1)

\* PHANTOM.get_virtual_block_parents
get_virtual_block_parents(s) == s.leaves

\* the loop of _set_parameters: the blocks of the old engine are added to
\* the new one in the order in which the graph lists them
RECURSIVE add_blocks(_, _, _)
add_blocks(new_dag, G, nodes) ==
    IF nodes = <<>> THEN new_dag
    ELSE CHOOSE result \in
             {add_blocks(next_dag, G, Tail(nodes)) :
                 next_dag \in {add(new_dag, Head(nodes), G[Head(nodes)].parents)}} : TRUE

\* PHANTOM.set_k on the greedy engine: _set_parameters builds an engine of
\* the same type with the new k and takes over its attributes
set_k(s, k) == add_blocks(GreedyPHANTOM(k), s.G, s.nodes)


\* ------------------------------------------------- PHANTOM (brute force)
\* PHANTOM.__init__
PHANTOM(k) ==
    [k |-> k, nodes |-> <<>>, G |-> EmptyDict, leaves |-> {}, coloring |-> {},
     genesis_gid |-> None]

\* __get_past: nx.descendants, the blocks reachable through parent edges
RECURSIVE phantom_get_past(_, _)
phantom_get_past(G, global_id) ==
    G[global_id].parents
    \cup UNION {phantom_get_past(G, parent) : parent \in G[global_id].parents}

\* __get_future: nx.ancestors
phantom_get_future(G, global_id) ==
    {g \in DOMAIN G : global_id \in phantom_get_past(G, g)}

\* __get_anticone
phantom_get_anticone(G, global_id) ==
    LET block_cone == {global_id} \cup phantom_get_past(G, global_id)
                      \cup phantom_get_future(G, global_id)
    IN DOMAIN G \ block_cone

\* a variant of compute_blue_anticones that counts the whole anticone of a
\* block of the coloring
is_valid_coloring_counting_red(G, k, cur_coloring) ==
    \A cur_block \in cur_coloring :
        Cardinality(phantom_get_anticone(G, cur_block)) <= k

\* compute_blue_anticones returns None iff some block of the coloring has
\* more than k blocks of the coloring in its anticone
is_valid_coloring(G, k, cur_coloring) ==
    \A cur_block \in cur_coloring :
        Cardinality(phantom_get_anticone(G, cur_block) \cap cur_coloring) <= k

\* the position of a block in the list of the nodes
node_index(nodes, global_id) == CHOOSE i \in 1 .. Len(nodes) : nodes[i] = global_id

\* itertools.combinations lists the subsets of one size in the lexicographic
\* order of their positions: c comes before d iff the first position in
\* which they differ belongs to c
comes_before(nodes, c, d) ==
    LET differ == {node_index(nodes, g) : g \in (c \ d) \cup (d \ c)}
    IN differ # {} /\ nodes[Min(differ)] \in c

\* PHANTOM._update_coloring_incrementally: powerset(nodes) runs by growing
\* size and a coloring replaces max_coloring only when it is strictly
\* larger, so the result is the first of the largest valid colorings
phantom_update_coloring_incrementally(s) ==
    LET valid == {c \in SUBSET DOMAIN s.G : is_valid_coloring(s.G, s.k, c)}
        largest == {c \in valid : \A d \in valid : Cardinality(d) <= Cardinality(c)}
        max_coloring == CHOOSE c \in largest :
                            \A d \in largest \ {c} : comes_before(s.nodes, c, d)
    IN [s EXCEPT !.coloring = max_coloring]

\* TopologicalOrderer.get_topological_order: the list it returns and the
\* set self._ordered after the call.  The leaves to visit are fixed before
\* the loop, so a leaf that an earlier leaf's recursion has ordered is
\* visited, and listed, again.
RECURSIVE get_topological_order(_, _, _, _)
RECURSIVE topological_order_of_leaves(_, _, _, _, _)
get_topological_order(G, cur_coloring, leaves, ordered) ==
    LET remaining == leaves \ ordered
        blue_leaves_set == remaining \cap cur_coloring
    IN IF remaining = {} THEN [cur_order |-> <<>>, ordered |-> ordered]
       ELSE topological_order_of_leaves(G, cur_coloring,
                sorted(blue_leaves_set) \o sorted(remaining \ blue_leaves_set),
                <<>>, ordered)

\* the for loop of get_topological_order
topological_order_of_leaves(G, cur_coloring, leaf_list, cur_order, ordered) ==
    IF leaf_list = <<>> THEN [cur_order |-> cur_order, ordered |-> ordered]
    ELSE LET leaf == Head(leaf_list)
             cur_leaf == get_topological_order(G, cur_coloring, G[leaf].parents,
                                                ordered \cup {leaf})
         IN topological_order_of_leaves(G, cur_coloring, Tail(leaf_list),
                cur_order \o cur_leaf.cur_order \o <<leaf>>, cur_leaf.ordered)

\* PHANTOM._update_topological_order_incrementally: enumerate(new_order)
\* leaves each block with the index of its last place in the list
phantom_update_topological_order_incrementally(s) ==
    LET new_order == get_topological_order(s.G, s.coloring, s.leaves, {}).cur_order
        last(cur_gid) == Max({i \in 1 .. Len(new_order) : new_order[i] = cur_gid})
    IN [s EXCEPT !.genesis_gid = IF new_order = <<>> THEN None ELSE new_order[1],
                 !.G = [g \in DOMAIN s.G |->
                          IF g \in Range(new_order)
                          THEN [s.G[g] EXCEPT !.lid = last(g) - 1]
                          ELSE s.G[g]]]

\* PHANTOM.add on the brute-force engine
phantom_add(s, global_id, parents) ==
    phantom_update_topological_order_incrementally(
        phantom_update_coloring_incrementally(
            [s EXCEPT !.nodes = Append(@, global_id),
                      !.G = (global_id :> [parents |-> parents, lid |-> None]) @@ @,
                      !.leaves = (@ \ parents) \cup {global_id}]))

\* PHANTOM._get_local_id
phantom_get_local_id(s, global_id) == s.G[global_id].lid

\* PHANTOM.is_a_before_b on the brute-force engine
phantom_is_a_before_b(s, a, b) ==
    LET has_a == a \in DOMAIN s.G
        has_b == b \in DOMAIN s.G
    IN IF ~has_a /\ ~has_b THEN None
       ELSE IF has_a /\ ~has_b THEN PyBool(TRUE)
       ELSE IF ~has_a /\ has_b THEN PyBool(FALSE)
       ELSE PyBool(phantom_get_local_id(s, a) <= phantom_get_local_id(s, b))

\* PHANTOM.get_depth
phantom_get_depth(s, global_id) == NegInf

\* the loop of _set_parameters on the brute-force engine
RECURSIVE phantom_add_blocks(_, _, _)
phantom_add_blocks(new_dag, G, nodes) ==
    IF nodes = <<>> THEN new_dag
    ELSE CHOOSE result \in
             {phantom_add_blocks(next_dag, G, Tail(nodes)) :
                 next_dag \in {phantom_add(new_dag, Head(nodes), G[Head(nodes)].parents)}} :
             TRUE

\* PHANTOM.set_k on the brute-force engine
phantom_set_k(s, k) == phantom_add_blocks(PHANTOM(k), s.G, s.nodes)

\* ---------------------------------------- CompetingChainGreedyPHANTOM
\* An engine is a record: dag holds the attributes it inherits from
\* GreedyPHANTOM (the combined DAG), honest_dag is the second GreedyPHANTOM
\* it keeps, the other fields are its own attributes.
CompetingChainGreedyPHANTOM(k, confirmation_depth, maximal_depth_difference) ==
    [dag |-> GreedyPHANTOM(k),
     honest_dag |-> GreedyPHANTOM(k),
     bluest_honest_block_gid |-> None,
     competing_chain_tip_gid |-> None,
     currently_attacked_block_gid |-> None,
     first_parallel_block_gid |-> None,
     competing_chain_tip_antipast |-> {},
     virtual_competing_chain_block_parents |-> {},
     confirmation_depth |-> confirmation_depth,
     maximal_depth_difference |-> maximal_depth_difference,
     malicious_blocks_to_add_to_honest_dag |-> <<>>]

\* self._G.predecessors(gid): the blocks that name gid as a parent
predecessors(G, gid) == {g \in DOMAIN G : gid \in G[g].parents}

\* the inner loop of _get_competing_chain_tip_parents: the ancestors of an
\* accepted block that lie in tip_antipast are marked visited and leave the
\* result.  acc is [visited, parents].
RECURSIVE remove_ancestors(_, _, _, _)
remove_ancestors(G, ancestor_queue, tip_antipast, acc) ==
    IF ancestor_queue = <<>> THEN acc
    ELSE LET ancestor_gid == Head(ancestor_queue)
         IN IF ancestor_gid \notin tip_antipast
            THEN remove_ancestors(G, Tail(ancestor_queue), tip_antipast, acc)
            ELSE remove_ancestors(G,
                     Tail(ancestor_queue) \o sorted(G[ancestor_gid].parents),
                     tip_antipast,
                     [visited |-> acc.visited \cup {ancestor_gid},
                      parents |-> acc.parents \ {ancestor_gid}])

\* the outer loop of _get_competing_chain_tip_parents
RECURSIVE competing_chain_tip_parents_walk(_, _, _, _, _)
competing_chain_tip_parents_walk(G, queue, tip_global_id, tip_antipast, acc) ==
    IF queue = <<>> THEN acc.parents
    ELSE LET gid == Head(queue)
         IN IF gid \in acc.visited \/ gid \notin tip_antipast
            THEN competing_chain_tip_parents_walk(G, Tail(queue), tip_global_id,
                                                  tip_antipast, acc)
            ELSE IF is_a_bluer_than_b(G, tip_global_id, gid)
            THEN competing_chain_tip_parents_walk(G, Tail(queue), tip_global_id,
                     tip_antipast,
                     remove_ancestors(G, sorted(G[gid].parents), tip_antipast,
                         [visited |-> acc.visited \cup {gid},
                          parents |-> acc.parents \cup {gid}]))
            ELSE competing_chain_tip_parents_walk(G,
                     Tail(queue) \o sorted(predecessors(G, gid)), tip_global_id,
                     tip_antipast,
                     [visited |-> acc.visited \cup {gid}, parents |-> acc.parents])

\* _get_competing_chain_tip_parents; the queue starts with
\* self.get_virtual_block_parents(), the leaves of the combined DAG
get_competing_chain_tip_parents(c, tip_global_id, tip_antipast, initial_parents) ==
    competing_chain_tip_parents_walk(c.dag.G, sorted(get_virtual_block_parents(c.dag)),
        tip_global_id, tip_antipast,
        [visited |-> initial_parents, parents |-> initial_parents])

\* did_attack_fail
did_attack_fail(c) ==
    c.first_parallel_block_gid = None \/ c.currently_attacked_block_gid = None

\* the loop of _add_malicious_blocks_to_honest_dag over the pending blocks
RECURSIVE add_pending_blocks(_, _, _)
add_pending_blocks(honest_dag, G, pending) ==
    IF pending = <<>> THEN honest_dag
    ELSE CHOOSE result \in
             {add_pending_blocks(next_dag, G, Tail(pending)) :
                 next_dag \in {add(honest_dag, Head(pending), G[Head(pending)].parents)}} :
             TRUE

\* _add_malicious_blocks_to_honest_dag
add_malicious_blocks_to_honest_dag(c) ==
    [c EXCEPT !.honest_dag = add_pending_blocks(c.honest_dag, c.dag.G,
                                 c.malicious_blocks_to_add_to_honest_dag),
              !.malicious_blocks_to_add_to_honest_dag = <<>>]

\* the last conjunct of did_attack_succeed, from the answer r of
\* is_a_before_b on the combined DAG
first_parallel_is_before_attacked(c, r) ==
    [cc |-> [c EXCEPT !.dag = r.dag], value |-> r.value = PyBool(TRUE)]

\* a variant of did_attack_succeed that does not ask is_a_before_b
did_attack_succeed_ignoring_order(c) ==
    IF did_attack_fail(c) THEN [cc |-> c, value |-> FALSE]
    ELSE [cc |-> c,
          value |-> /\ get_depth(c.dag, c.first_parallel_block_gid)
                         >= c.confirmation_depth
                    /\ get_depth(c.honest_dag, c.currently_attacked_block_gid)
                         >= c.confirmation_depth]

\* did_attack_succeed: the engine after the call and the truth of what it
\* returns; is_a_before_b runs, and may order the antipast of the combined
\* DAG, only when both depths reach the confirmation depth
did_attack_succeed(c) ==
    IF did_attack_fail(c) THEN [cc |-> c, value |-> FALSE]
    ELSE IF /\ get_depth(c.dag, c.first_parallel_block_gid) >= c.confirmation_depth
            /\ get_depth(c.honest_dag, c.currently_attacked_block_gid)
                 >= c.confirmation_depth
    THEN first_parallel_is_before_attacked(c,
             is_a_before_b(c.dag, c.first_parallel_block_gid,
                           c.currently_attacked_block_gid))
    ELSE [cc |-> c, value |-> FALSE]

\* _stop_attack
stop_attack(c) ==
    [add_malicious_blocks_to_honest_dag(c) EXCEPT
        !.competing_chain_tip_gid = None,
        !.first_parallel_block_gid = None]

\* _restart_attack after _stop_attack: the attacked block and the antipast
\* of the competing chain's tip are taken from the honest DAG
restart_attack_on_honest_tip(c) ==
    [c EXCEPT
        !.competing_chain_tip_antipast = c.honest_dag.antipast,
        !.currently_attacked_block_gid = c.honest_dag.coloring_tip_gid]

\* the last statement of _restart_attack
restart_attack_parents(c) ==
    [c EXCEPT !.virtual_competing_chain_block_parents =
        get_competing_chain_tip_parents(c, c.currently_attacked_block_gid,
            c.competing_chain_tip_antipast,
            c.dag.G[c.honest_dag.coloring_tip_gid].parents)]

\* _restart_attack
restart_attack(c) ==
    restart_attack_parents(restart_attack_on_honest_tip(stop_attack(c)))

\* _is_attack_viable
is_attack_viable(c) ==
    IF did_attack_fail(c) THEN TRUE
    ELSE c.dag.G[c.dag.coloring_tip_gid].blue_number
           - c.dag.G[c.competing_chain_tip_gid].blue_number
         <= c.maximal_depth_difference

\* a variant of the malicious part of add that does not put the block in
\* the queue
add_malicious_unqueued(c, global_id, parents) ==
    LET c2 == [c EXCEPT
                 !.first_parallel_block_gid = IF did_attack_fail(c) THEN global_id ELSE @,
                 !.competing_chain_tip_gid = global_id,
                 !.competing_chain_tip_antipast =
                     (@ \ Keys(c.dag.G[global_id].blue_diff_past_order))
                        \ Keys(c.dag.G[global_id].red_diff_past_order)]
    IN [c2 EXCEPT !.virtual_competing_chain_block_parents =
            get_competing_chain_tip_parents(c2, global_id,
                c2.competing_chain_tip_antipast, parents)]

\* the part of CompetingChainGreedyPHANTOM.add that follows super().add
\* for a malicious block
add_malicious(c, global_id, parents) ==
    LET c1 == [c EXCEPT !.malicious_blocks_to_add_to_honest_dag = Append(@, global_id)]
        c2 == [c1 EXCEPT
                 !.first_parallel_block_gid = IF did_attack_fail(c1) THEN global_id ELSE @,
                 !.competing_chain_tip_gid = global_id,
                 !.competing_chain_tip_antipast =
                     (@ \ Keys(c1.dag.G[global_id].blue_diff_past_order))
                        \ Keys(c1.dag.G[global_id].red_diff_past_order)]
    IN [c2 EXCEPT !.virtual_competing_chain_block_parents =
            get_competing_chain_tip_parents(c2, global_id,
                c2.competing_chain_tip_antipast, parents)]

\* a variant of add that leaves an honest block out of the honest DAG
skip_honest_dag(c, global_id, parents) == c

\* "self._honest_dag.add(block)"
add_to_honest_dag(c, global_id, parents) ==
    [c EXCEPT !.honest_dag = add(c.honest_dag, global_id, parents)]

\* the part of CompetingChainGreedyPHANTOM.add that follows super().add
\* for an honest block
add_honest(c, global_id, parents) ==
    add_to_honest_dag(
        IF did_attack_fail(c) THEN add_malicious_blocks_to_honest_dag(c) ELSE c,
        global_id, parents)

\* a variant of the end of add that leaves the virtual block's parents as
\* they are
update_attack_keeping_parents(c, global_id, parents) ==
    IF did_attack_fail(c) THEN c
    ELSE [c EXCEPT !.competing_chain_tip_antipast = @ \cup {global_id}]

\* the end of CompetingChainGreedyPHANTOM.add: the bookkeeping of an attack
\* that is in progress
update_attack(c, global_id, parents) ==
    IF did_attack_fail(c) THEN c
    ELSE LET c1 == [c EXCEPT !.competing_chain_tip_antipast = @ \cup {global_id}]
         IN IF \/ global_id = c1.competing_chain_tip_gid
               \/ is_a_bluer_than_b(c1.dag.G, c1.competing_chain_tip_gid, global_id)
            THEN [c1 EXCEPT !.virtual_competing_chain_block_parents =
                                (@ \ parents) \cup {global_id}]
            ELSE IF ~is_attack_viable(c1) THEN stop_attack(c1)
            ELSE c1

\* CompetingChainGreedyPHANTOM.add after super().add: the malicious or the
\* honest part
add_malicious_or_honest(c, global_id, parents, is_malicious) ==
    IF is_malicious THEN add_malicious(c, global_id, parents)
    ELSE add_honest(c, global_id, parents)

\* "if self.did_attack_succeed(): self._add_malicious_blocks_to_honest_dag()"
add_malicious_blocks_if_succeeded(succeeded) ==
    IF succeeded.value THEN add_malicious_blocks_to_honest_dag(succeeded.cc)
    ELSE succeeded.cc

\* CompetingChainGreedyPHANTOM.add
cc_add(c, global_id, parents, is_malicious) ==
    update_attack(
        add_malicious_blocks_if_succeeded(
            did_attack_succeed(
                add_malicious_or_honest(
                    [c EXCEPT !.dag = add(c.dag, global_id, parents)],
                    global_id, parents, is_malicious))),
        global_id, parents)

\* "return self._virtual_competing_chain_block_parents"
with_virtual_competing_chain_block_parents(c) ==
    [cc |-> c, value |-> c.virtual_competing_chain_block_parents]

\* CompetingChainGreedyPHANTOM.get_virtual_block_parents: the engine after
\* the call and the set it returns
cc_get_virtual_block_parents(c, is_malicious) ==
    IF ~is_malicious \/ Len(c.dag.nodes) <= 1
    THEN [cc |-> c, value |-> get_virtual_block_parents(c.dag)]
    ELSE with_virtual_competing_chain_block_parents(
             IF did_attack_fail(c) THEN restart_attack(c) ELSE c)

\* a variant of set_k that keeps the engine and only stores the new k
cc_set_k_keeping_engine(c, k) ==
    [c EXCEPT !.dag = [@ EXCEPT !.k = k], !.honest_dag = [@ EXCEPT !.k = k]]

\* the loop of _set_parameters on a competing-chain engine: add is called
\* without is_malicious, so every block is added as an honest block
RECURSIVE cc_add_blocks(_, _, _)
cc_add_blocks(new_dag, G, nodes) ==
    IF nodes = <<>> THEN new_dag
    ELSE CHOOSE result \in
             {cc_add_blocks(next_dag, G, Tail(nodes)) :
                 next_dag \in {cc_add(new_dag, Head(nodes), G[Head(nodes)].parents,
                                      FALSE)}} : TRUE

\* CompetingChainGreedyPHANTOM.set_k: _set_parameters builds an engine of
\* the same type with the new k and the old confirmation_depth and
\* maximal_depth_difference, and takes over its attributes
cc_set_k(c, k) ==
    cc_add_blocks(
        CompetingChainGreedyPHANTOM(k, c.confirmation_depth, c.maximal_depth_difference),
        c.dag.G, c.dag.nodes)

\* ------------------------------------------------------------ Blockchain
\* An engine is a record; G maps a global id to the node's attributes:
\* chain_length, block_data (the parents the block names) and parent (the
\* block its one edge points to, None without an edge).  nodes lists the
\* ids in the order the graph lists them.
Blockchain ==
    [G |-> EmptyDict, nodes |-> <<>>, leaves |-> {},
     longest_chain_tip_gid |-> None, longest_chain |-> {}]

\* _get_longest_chain_tip: max over the sorted ids takes the first id of
\* the greatest chain length
get_longest_chain_tip(G, global_ids) ==
    IF global_ids = {} THEN None
    ELSE Min({g \in global_ids :
                 \A h \in global_ids : G[h].chain_length <= G[g].chain_length})

\* self._G.successors(gid)
successors(G, gid) == IF G[gid].parent = None THEN {} ELSE {G[gid].parent}

\* the loop of _chain_generator, as the sequence of the yielded ids
RECURSIVE chain_generator_from(_, _, _)
chain_generator_from(G, gid, counter) ==
    IF counter < 0 THEN <<>>
    ELSE <<gid>> \o chain_generator_from(G,
                        get_longest_chain_tip(G, successors(G, gid)), counter - 1)

\* _chain_generator
chain_generator(G, tip_gid) ==
    IF tip_gid = None THEN <<>>
    ELSE chain_generator_from(G, tip_gid, G[tip_gid].chain_length - 1)

\* the ids a loop over chain takes before it breaks at the first id in stop
UntilBreak(chain, stop) ==
    LET hits == {i \in 1 .. Len(chain) : chain[i] \in stop}
    IN {chain[i] : i \in 1 .. (IF hits = {} THEN Len(chain) ELSE Min(hits) - 1)}

\* the id at which the loop over chain breaks, None when it does not
BreakAt(chain, stop) ==
    LET hits == {i \in 1 .. Len(chain) : chain[i] \in stop}
    IN IF hits = {} THEN None ELSE chain[Min(hits)]

\* the else branch of _update_longest_chain_incrementally: the chain of
\* the new tip is walked down to the old longest chain, the chain of the
\* old tip down to the intersection
reorganise_longest_chain(s, global_id, previous_tip_gid) ==
    LET new_chain == chain_generator(s.G, global_id)
        chain_intersection_gid == BreakAt(new_chain, s.longest_chain)
    IN (s.longest_chain
          \ UntilBreak(chain_generator(s.G, previous_tip_gid),
                       {chain_intersection_gid}))
       \cup UntilBreak(new_chain, s.longest_chain)

\* a variant of _update_longest_chain_incrementally that keeps the first
\* tip for ever
keep_longest_chain(s, global_id, parent) ==
    IF s.longest_chain_tip_gid = None
    THEN [s EXCEPT !.longest_chain_tip_gid = global_id,
                   !.longest_chain = @ \cup {global_id}]
    ELSE s

\* _update_longest_chain_incrementally
update_longest_chain_incrementally(s, global_id, parent) ==
    LET chain_length == s.G[global_id].chain_length
        previous_tip_gid == s.longest_chain_tip_gid
    IN IF \/ previous_tip_gid = None
          \/ chain_length > s.G[previous_tip_gid].chain_length
          \/ /\ chain_length = s.G[previous_tip_gid].chain_length
             /\ global_id < previous_tip_gid
       THEN [s EXCEPT
               !.longest_chain_tip_gid = global_id,
               !.longest_chain =
                   IF parent = previous_tip_gid THEN @ \cup {global_id}
                   ELSE reorganise_longest_chain(s, global_id, previous_tip_gid)]
       ELSE s

\* the node Blockchain.add makes of a block
BlockchainNode(G, parents) ==
    [chain_length |-> IF get_longest_chain_tip(G, parents) = None THEN 1
                      ELSE 1 + G[get_longest_chain_tip(G, parents)].chain_length,
     block_data |-> parents,
     parent |-> get_longest_chain_tip(G, parents)]

\* Blockchain.add before the update of the longest chain
blockchain_add_node(s, global_id, parents) ==
    [s EXCEPT
        !.G = [g \in DOMAIN s.G \cup {global_id} |->
                  IF g = global_id THEN BlockchainNode(s.G, parents) ELSE s.G[g]],
        !.nodes = Append(@, global_id),
        !.leaves = (@ \ {get_longest_chain_tip(s.G, parents)}) \cup {global_id}]

\* Blockchain.add
blockchain_add(s, global_id, parents) ==
    update_longest_chain_incrementally(
        blockchain_add_node(s, global_id, parents), global_id,
        get_longest_chain_tip(s.G, parents))

\* Blockchain.get_virtual_block_parents
blockchain_get_virtual_block_parents(s) ==
    IF s.longest_chain_tip_gid = None THEN {} ELSE {s.longest_chain_tip_gid}

\* a variant of Blockchain.get_depth that measures from the block itself
blockchain_get_depth_of_self(s, global_id) ==
    IF global_id \notin DOMAIN s.G THEN NegInf ELSE 0

\* Blockchain.get_depth
blockchain_get_depth(s, global_id) ==
    IF global_id \notin DOMAIN s.G THEN NegInf
    ELSE IF global_id \notin s.longest_chain THEN 0
    ELSE s.G[s.longest_chain_tip_gid].chain_length - s.G[global_id].chain_length

\* Blockchain.is_a_before_b: None, or PyBool of the answer
blockchain_is_a_before_b(s, a, b) ==
    IF a \notin s.longest_chain /\ b \notin s.longest_chain THEN None
    ELSE IF a \notin s.longest_chain /\ b \in s.longest_chain THEN PyBool(FALSE)
    ELSE IF a \in s.longest_chain /\ b \notin s.longest_chain THEN PyBool(TRUE)
    ELSE PyBool(s.G[a].chain_length <= s.G[b].chain_length)

\* ------------------------------------------------------------ the system
\* dag: a GreedyPHANTOM engine; bf: a brute-force PHANTOM engine that is
\* given the same k and the same blocks in the same order
\* cc: a CompetingChainGreedyPHANTOM engine
\* lazy_set: a LazySet; raised: the exception the last call on it raised
\* blockchain: a Blockchain engine
\* shared: a LazySet together with the set objects its layers refer to
\* miner: a Miner;  network: the Network the miner belongs to
\* ------------------------------------------------------------------ Miner
\* Block(global_id, parents)
Block(global_id, parents) == [global_id |-> global_id, parents |-> parents]

\* None where a block is expected
NoBlock == Block(None, {})

\* nx.DiGraph() as the miner uses it for _block_queue: node maps a node to
\* its "to_add_block_data" (None or a block), edges lists the edges
\* (block, parent) in the order they were added
DiGraph == [node |-> EmptyDict, edges |-> <<>>]

\* G.add_edge(u, v): nodes that are new are created, an edge that is there
\* keeps its place
add_edge(G, u, v) ==
    [node |-> G.node @@ [n \in {u, v} |-> NoBlock],
     edges |-> IF <<u, v>> \in Range(G.edges) THEN G.edges ELSE Append(G.edges, <<u, v>>)]

\* G.predecessors(n), in the order the edges were added
RECURSIVE queue_predecessors(_, _)
queue_predecessors(edges, n) ==
    IF edges = <<>> THEN <<>>
    ELSE (IF Head(edges)[2] = n THEN <<Head(edges)[1]>> ELSE <<>>)
             \o queue_predecessors(Tail(edges), n)

\* G.remove_node(n): the node goes with the edges it is on
remove_node(G, n) ==
    [node |-> [m \in DOMAIN G.node \ {n} |-> G.node[m]],
     edges |-> SelectSeq(G.edges, LAMBDA e : e[1] # n /\ e[2] # n)]

\* Network(): _total_network_dag maps the global id of every block of the
\* network to the block; delivered holds the global ids of the blocks the
\* network has handed to the miner
Network == [total_network_dag |-> EmptyDict, delivered |-> {}]

\* Miner(name, dag, max_peer_num, block_size, fetch_requested_blocks):
\* returned is what the last add_block returned (False before the first)
Miner(miner_dag, fetch_requested_blocks) ==
    [dag |-> miner_dag, fetch_requested_blocks |-> fetch_requested_blocks,
     block_queue |-> DiGraph, returned |-> FALSE]

\* _fetch_block(block_gid): the request to the network changes nothing in
\* the miner; the node's data is set to None, whatever it was
fetch_block(m, block_gid) ==
    [m EXCEPT !.block_queue.node = (block_gid :> NoBlock) @@ @]

\* the for loop of _add_to_block_queue over the parents
RECURSIVE add_to_block_queue_parents(_, _, _)
add_to_block_queue_parents(m, global_id, parents) ==
    IF parents = <<>> THEN m
    ELSE LET parent_gid == Head(parents)
             fetched == IF parent_gid \notin DOMAIN m.block_queue.node
                        THEN fetch_block(m, parent_gid) ELSE m
         IN add_to_block_queue_parents(
                IF parent_gid \notin DOMAIN m.dag.G
                THEN [fetched EXCEPT !.block_queue = add_edge(@, global_id, parent_gid)]
                ELSE m,
                global_id, Tail(parents))

\* _add_to_block_queue(block): value is True iff the block was queued
add_to_block_queue(m, block) ==
    LET missing_parent == \E parent_gid \in block.parents : parent_gid \notin DOMAIN m.dag.G
        queued == add_to_block_queue_parents(m, block.global_id, sorted(block.parents))
    IN IF missing_parent
       THEN [miner |-> [queued EXCEPT !.block_queue.node[block.global_id] = block],
             value |-> TRUE]
       ELSE [miner |-> queued, value |-> FALSE]

\* _basic_block_add(block)
basic_block_add(m, block) ==
    [m EXCEPT !.dag = add(@, block.global_id, block.parents)]

\* the while loop of _cascade_block_addition.  np.bitwise_and.reduce of the
\* list of "parent in DAG" answers is their conjunction (every block that
\* gets here has a parent)
RECURSIVE cascade_loop(_, _)
cascade_loop(m, addition_queue) ==
    IF addition_queue = <<>> THEN m
    ELSE LET cur_block_gid == Head(addition_queue)
             cur_block == m.block_queue.node[cur_block_gid]
         IN IF cur_block_gid \notin DOMAIN m.block_queue.node
            THEN cascade_loop(m, Tail(addition_queue))
            ELSE IF cur_block # NoBlock
                    /\ \A parent_gid \in cur_block.parents : parent_gid \in DOMAIN m.dag.G
                 THEN cascade_loop(
                          basic_block_add(
                              [m EXCEPT !.block_queue = remove_node(@, cur_block_gid)],
                              cur_block),
                          Tail(addition_queue)
                              \o queue_predecessors(m.block_queue.edges, cur_block_gid))
                 ELSE cascade_loop(m, Tail(addition_queue))

\* _cascade_block_addition(block)
cascade_block_addition(m, block) ==
    cascade_loop([m EXCEPT !.block_queue.node[block.global_id] = block],
                 <<block.global_id>>)

\* add_block(block); is_valid is the answer of _is_valid(block)
add_block(m, block, is_valid) ==
    IF ~is_valid THEN [m EXCEPT !.returned = FALSE]
    ELSE IF block.global_id \in DOMAIN m.dag.G THEN [m EXCEPT !.returned = TRUE]
    ELSE LET queued == add_to_block_queue(m, block)
         IN IF queued.value THEN [queued.miner EXCEPT !.returned = FALSE]
            ELSE IF block.global_id \in DOMAIN queued.miner.block_queue.node
                 THEN [cascade_block_addition(queued.miner, block) EXCEPT !.returned = TRUE]
                 ELSE [basic_block_add(queued.miner, block) EXCEPT !.returned = TRUE]

\* send_block(recipient_name, global_id): sending a block the miner has
\* changes nothing in the miner
send_block(m, global_id) ==
    IF global_id \in DOMAIN m.dag.G THEN m
    ELSE IF m.fetch_requested_blocks THEN fetch_block(m, global_id)
    ELSE m

\* Network.add_miner(miner, hash_rate): the miner gets the genesis block
add_miner(m) == add_block(m, Block(0, {}), TRUE)

VARIABLES dag, bf, cc, lazy_set, raised, blockchain, shared, miner, network

vars == <<dag, bf, cc, lazy_set, raised, blockchain, shared, miner, network>>

Init ==
    \E k \in 0 .. MaxK :
        /\ dag = GreedyPHANTOM(k)
        /\ bf = PHANTOM(k)
        /\ cc = CompetingChainGreedyPHANTOM(0, 0, 0)
        /\ lazy_set = LazySetEmpty
        /\ raised = NoException
        /\ blockchain = Blockchain
        /\ shared = SharedLazySet(<<>>)
        /\ miner = Miner(GreedyPHANTOM(0), FALSE)
        /\ network = Network

\* add(Block(global_id, parents)): a block that is new to the DAG, whose
\* parents are in the DAG; the first block is the genesis, every later block
\* has a parent
Add(global_id, parents) ==
    /\ Len(dag.nodes) < MaxBlocks
    /\ global_id \notin DOMAIN dag.G
    /\ parents \subseteq DOMAIN dag.G
    /\ (parents = {}) <=> (dag.nodes = <<>>)
    /\ dag' = add(dag, global_id, parents)
    /\ bf' = phantom_add(bf, global_id, parents)
    /\ UNCHANGED <<cc, lazy_set, raised, blockchain, shared, miner, network>>

\* a caller asks for the coloring
GetColoring ==
    /\ dag' = get_coloring(dag).dag
    /\ UNCHANGED <<bf, cc, lazy_set, raised, blockchain, shared, miner, network>>

\* a caller asks is_a_before_b(a, b)
IsABeforeB(a, b) ==
    /\ dag' = is_a_before_b(dag, a, b).dag
    /\ UNCHANGED <<bf, cc, lazy_set, raised, blockchain, shared, miner, network>>

\* a caller asks get_depth(global_id): no attribute is assigned
GetDepth(global_id) ==
    /\ get_depth(dag, global_id) \in {NegInf} \cup (0 .. MaxBlocks)
    /\ UNCHANGED vars

\* a caller asks get_virtual_block_parents(): no attribute is assigned
GetVirtualBlockParents ==
    /\ get_virtual_block_parents(dag) \subseteq GlobalIDs
    /\ UNCHANGED vars

\* set_k(k) on both engines
SetK(k) ==
    /\ dag' = set_k(dag, k)
    /\ bf' = phantom_set_k(bf, k)
    /\ UNCHANGED <<cc, lazy_set, raised, blockchain, shared, miner, network>>

Next ==
    \/ \E global_id \in GlobalIDs : \E parents \in SUBSET GlobalIDs : Add(global_id, parents)
    \/ GetColoring
    \/ \E a \in GlobalIDs : \E b \in GlobalIDs : IsABeforeB(a, b)
    \/ \E global_id \in GlobalIDs : GetDepth(global_id)
    \/ GetVirtualBlockParents

Spec == Init /\ [][Next]_vars

\* the engines under add and set_k
NextSetK ==
    \/ \E global_id \in GlobalIDs : \E parents \in SUBSET GlobalIDs : Add(global_id, parents)
    \/ \E k \in 0 .. MaxK : SetK(k)

SpecSetK == Init /\ [][NextSetK]_vars

\* ------------------------------------- the competing-chain engine alone
InitCompetingChain ==
    \E k \in 0 .. MaxK :
      \E confirmation_depth \in 0 .. MaxConfirmationDepth :
        \E maximal_depth_difference \in 0 .. MaxDepthDifference :
            /\ cc = CompetingChainGreedyPHANTOM(k, confirmation_depth,
                                                maximal_depth_difference)
            /\ dag = GreedyPHANTOM(k)
            /\ bf = PHANTOM(k)
            /\ lazy_set = LazySetEmpty
            /\ raised = NoException
            /\ blockchain = Blockchain
            /\ shared = SharedLazySet(<<>>)
            /\ miner = Miner(GreedyPHANTOM(0), FALSE)
            /\ network = Network

\* the blocks an honest block may name as parents: the blocks of the honest
\* DAG when the block is added to it (the pending malicious blocks are
\* added first when no attack is in progress)
HonestParents ==
    DOMAIN cc.honest_dag.G
    \cup (IF did_attack_fail(cc) THEN Range(cc.malicious_blocks_to_add_to_honest_dag)
          ELSE {})

\* add(block, is_malicious): a new block whose parents are in the DAG; the
\* first block has no parents, every later block has one
CCAdd(global_id, parents, is_malicious) ==
    /\ Len(cc.dag.nodes) < MaxBlocks
    /\ global_id \notin DOMAIN cc.dag.G
    /\ parents \subseteq (IF is_malicious THEN DOMAIN cc.dag.G ELSE HonestParents)
    /\ (parents = {}) <=> (cc.dag.nodes = <<>>)
    /\ cc' = cc_add(cc, global_id, parents, is_malicious)
    /\ UNCHANGED <<dag, bf, lazy_set, raised, blockchain, shared, miner, network>>

\* get_virtual_block_parents(is_malicious)
CCGetVirtualBlockParents(is_malicious) ==
    /\ cc' = cc_get_virtual_block_parents(cc, is_malicious).cc
    /\ UNCHANGED <<dag, bf, lazy_set, raised, blockchain, shared, miner, network>>

\* did_attack_succeed()
CCDidAttackSucceed ==
    /\ cc' = did_attack_succeed(cc).cc
    /\ UNCHANGED <<dag, bf, lazy_set, raised, blockchain, shared, miner, network>>

\* did_attack_fail(): no attribute is assigned
CCDidAttackFail ==
    /\ did_attack_fail(cc) \in BOOLEAN
    /\ UNCHANGED vars

NextCompetingChain ==
    \/ \E global_id \in GlobalIDs : \E parents \in SUBSET GlobalIDs :
          \E is_malicious \in BOOLEAN : CCAdd(global_id, parents, is_malicious)
    \/ \E is_malicious \in BOOLEAN : CCGetVirtualBlockParents(is_malicious)
    \/ CCDidAttackSucceed
    \/ CCDidAttackFail

SpecCompetingChain == InitCompetingChain /\ [][NextCompetingChain]_vars

\* the competing-chain engine after construction, beside two engines that
\* stay empty
InitCompetingChainSetK ==
    \E k \in 0 .. MaxK :
      \E confirmation_depth \in 0 .. MaxConfirmationDepth :
        \E maximal_depth_difference \in 0 .. MaxDepthDifference :
            /\ cc = CompetingChainGreedyPHANTOM(k, confirmation_depth,
                                                maximal_depth_difference)
            /\ dag = GreedyPHANTOM(0)
            /\ bf = PHANTOM(0)
            /\ lazy_set = LazySetEmpty
            /\ raised = NoException
            /\ blockchain = Blockchain
            /\ shared = SharedLazySet(<<>>)
            /\ miner = Miner(GreedyPHANTOM(0), FALSE)
            /\ network = Network

\* set_k(k) on the competing-chain engine
CCSetK(k) ==
    /\ cc' = cc_set_k(cc, k)
    /\ UNCHANGED <<dag, bf, lazy_set, raised, blockchain, shared, miner, network>>

\* the competing-chain engine under add, get_virtual_block_parents and
\* set_k
NextCompetingChainSetK ==
    \/ \E global_id \in GlobalIDs : \E parents \in SUBSET GlobalIDs :
          \E is_malicious \in BOOLEAN : CCAdd(global_id, parents, is_malicious)
    \/ \E is_malicious \in BOOLEAN : CCGetVirtualBlockParents(is_malicious)
    \/ \E k \in 0 .. MaxK : CCSetK(k)

SpecCompetingChainSetK == InitCompetingChainSetK /\ [][NextCompetingChainSetK]_vars

\* ------------------------------------------------------ a LazySet alone
Elems == 0 .. MaxElem

\* LazySet(base_set, [negative_set], [positive_set]); the engines stay empty
InitLazySet ==
    /\ \E base_set \in SUBSET Elems : \E negative_set \in SUBSET Elems :
          \E positive_set \in SUBSET Elems :
             lazy_set = LazySetNew(base_set, <<negative_set>>, <<positive_set>>)
    /\ raised = NoException
    /\ dag = GreedyPHANTOM(0)
    /\ bf = PHANTOM(0)
    /\ cc = CompetingChainGreedyPHANTOM(0, 0, 0)
    /\ blockchain = Blockchain
    /\ shared = SharedLazySet(<<>>)
    /\ miner = Miner(GreedyPHANTOM(0), FALSE)
    /\ network = Network

\* lazy_update(other)
LazyUpdate(other) ==
    /\ Len(lazy_set.sets) < MaxLayers
    /\ lazy_set' = lazy_update(lazy_set, other)
    /\ raised' = NoException
    /\ UNCHANGED <<dag, bf, cc, blockchain, shared, miner, network>>

\* lazy_difference_update(other)
LazyDifferenceUpdate(other) ==
    /\ Len(lazy_set.sets) < MaxLayers
    /\ lazy_set' = lazy_difference_update(lazy_set, other)
    /\ raised' = NoException
    /\ UNCHANGED <<dag, bf, cc, blockchain, shared, miner, network>>

\* add(elem)
LazyAdd(elem) ==
    /\ Len(lazy_set.sets) < MaxLayers
    /\ lazy_set' = LazySetAdd(lazy_set, elem)
    /\ raised' = NoException
    /\ UNCHANGED <<dag, bf, cc, blockchain, shared, miner, network>>

\* remove(elem)
LazyRemove(elem) ==
    /\ Len(lazy_set.sets) < MaxLayers \/ ~LazySetContains(lazy_set, elem)
    /\ lazy_set' = LazySetRemove(lazy_set, elem).lazy_set
    /\ raised' = LazySetRemove(lazy_set, elem).raised
    /\ UNCHANGED <<dag, bf, cc, blockchain, shared, miner, network>>

\* discard(elem)
LazyDiscard(elem) ==
    /\ Len(lazy_set.sets) < MaxLayers
    /\ lazy_set' = LazySetDiscard(lazy_set, elem)
    /\ raised' = NoException
    /\ UNCHANGED <<dag, bf, cc, blockchain, shared, miner, network>>

\* pop()
LazyPop ==
    /\ \/ Len(lazy_set.sets) < MaxLayers
       \/ first_items_from(lazy_set, Len(lazy_set.sets), {}) = {}
    /\ \E value \in Elems :
          /\ first_items_from(lazy_set, Len(lazy_set.sets), {}) # {}
                => value \in first_items_from(lazy_set, Len(lazy_set.sets), {})
          /\ lazy_set' = LazySetPop(lazy_set, value).lazy_set
          /\ raised' = LazySetPop(lazy_set, value).raised
    /\ UNCHANGED <<dag, bf, cc, blockchain, shared, miner, network>>

\* flatten()
LazyFlatten ==
    /\ lazy_set' = flatten(lazy_set)
    /\ raised' = NoException
    /\ UNCHANGED <<dag, bf, cc, blockchain, shared, miner, network>>

\* clear()
LazyClear ==
    /\ lazy_set' = LazySetClear(lazy_set)
    /\ raised' = NoException
    /\ UNCHANGED <<dag, bf, cc, blockchain, shared, miner, network>>

NextLazySet ==
    \/ \E other \in SUBSET Elems : LazyUpdate(other)
    \/ \E other \in SUBSET Elems : LazyDifferenceUpdate(other)
    \/ \E elem \in Elems : LazyAdd(elem)
    \/ \E elem \in Elems : LazyRemove(elem)
    \/ \E elem \in Elems : LazyDiscard(elem)
    \/ LazyPop
    \/ LazyFlatten
    \/ LazyClear

SpecLazySet == InitLazySet /\ [][NextLazySet]_vars

\* ------------------------------------- a LazySet over shared set objects
\* the caller holds MaxObjects set objects; the LazySet is empty
InitSharedLazySet ==
    /\ \E objects \in [1 .. MaxObjects -> SUBSET Elems] : shared = SharedLazySet(objects)
    /\ lazy_set = LazySetEmpty
    /\ raised = NoException
    /\ dag = GreedyPHANTOM(0)
    /\ bf = PHANTOM(0)
    /\ cc = CompetingChainGreedyPHANTOM(0, 0, 0)
    /\ blockchain = Blockchain
    /\ miner = Miner(GreedyPHANTOM(0), FALSE)
    /\ network = Network

\* lazy_update(other) with one of the caller's set objects
SharedLazyUpdate(other) ==
    /\ Len(shared.sets) < MaxLayers
    /\ shared' = shared_lazy_update(shared, other)
    /\ UNCHANGED <<dag, bf, cc, lazy_set, raised, blockchain, miner, network>>

\* lazy_difference_update(other) with one of the caller's set objects
SharedLazyDifferenceUpdate(other) ==
    /\ Len(shared.sets) < MaxLayers
    /\ shared' = shared_lazy_difference_update(shared, other)
    /\ UNCHANGED <<dag, bf, cc, lazy_set, raised, blockchain, miner, network>>

\* flatten(modify)
SharedFlatten(modify) ==
    /\ shared' = shared_flatten(shared, modify)
    /\ UNCHANGED <<dag, bf, cc, lazy_set, raised, blockchain, miner, network>>

NextSharedLazySet ==
    \/ \E other \in 1 .. MaxObjects : SharedLazyUpdate(other)
    \/ \E other \in 1 .. MaxObjects : SharedLazyDifferenceUpdate(other)
    \/ \E modify \in BOOLEAN : SharedFlatten(modify)

SpecSharedLazySet == InitSharedLazySet /\ [][NextSharedLazySet]_vars

\* ---------------------------------------------------------- a Miner alone
\* the blocks of the network: the genesis block 0 and blocks 1 .. MaxId,
\* each with parents among the blocks of smaller id
TotalNetworkDags ==
    {d \in [GlobalIDs -> SUBSET GlobalIDs] :
        /\ d[0] = {}
        /\ \A g \in GlobalIDs \ {0} : d[g] # {} /\ \A p \in d[g] : p < g}

\* a miner after Network.add_miner
InitMiner ==
    /\ \E d \in TotalNetworkDags :
           network = [total_network_dag |-> [g \in GlobalIDs |-> Block(g, d[g])],
                      delivered |-> {0}]
    /\ \E k \in 0 .. MaxK, fetch_requested_blocks \in BOOLEAN :
           miner = add_miner(Miner(GreedyPHANTOM(k), fetch_requested_blocks))
    /\ dag = GreedyPHANTOM(0)
    /\ bf = PHANTOM(0)
    /\ cc = CompetingChainGreedyPHANTOM(0, 0, 0)
    /\ lazy_set = LazySetEmpty
    /\ raised = NoException
    /\ blockchain = Blockchain
    /\ shared = SharedLazySet(<<>>)

\* a block of the network arrives: add_block(block)
MinerAddBlock(global_id, is_valid) ==
    /\ miner' = add_block(miner, network.total_network_dag[global_id], is_valid)
    /\ network' = [network EXCEPT !.delivered = IF is_valid THEN @ \cup {global_id} ELSE @]
    /\ UNCHANGED <<dag, bf, cc, lazy_set, raised, blockchain, shared>>

\* a peer asks the miner for a block: send_block(recipient_name, global_id)
MinerSendBlock(global_id) ==
    /\ miner' = send_block(miner, global_id)
    /\ UNCHANGED <<dag, bf, cc, lazy_set, raised, blockchain, shared, network>>

NextMiner ==
    \/ \E global_id \in GlobalIDs, is_valid \in BOOLEAN : MinerAddBlock(global_id, is_valid)
    \/ \E global_id \in GlobalIDs : MinerSendBlock(global_id)

SpecMiner == InitMiner /\ [][NextMiner]_vars

\* ---------------------------------------------- a Blockchain engine alone
InitBlockchain ==
    /\ blockchain = Blockchain
    /\ shared = SharedLazySet(<<>>)
    /\ miner = Miner(GreedyPHANTOM(0), FALSE)
    /\ network = Network
    /\ dag = GreedyPHANTOM(0)
    /\ bf = PHANTOM(0)
    /\ cc = CompetingChainGreedyPHANTOM(0, 0, 0)
    /\ lazy_set = LazySetEmpty
    /\ raised = NoException

\* add(Block(global_id, parents)): a new block whose parents are in the
\* DAG; the first block has no parents, every later block has one
BlockchainAdd(global_id, parents) ==
    /\ Len(blockchain.nodes) < MaxBlocks
    /\ global_id \notin DOMAIN blockchain.G
    /\ parents \subseteq DOMAIN blockchain.G
    /\ (parents = {}) <=> (blockchain.nodes = <<>>)
    /\ blockchain' = blockchain_add(blockchain, global_id, parents)
    /\ UNCHANGED <<dag, bf, cc, lazy_set, raised, shared, miner, network>>

\* get_depth(global_id): no attribute is assigned
BlockchainGetDepth(global_id) ==
    /\ blockchain_get_depth(blockchain, global_id) \in {NegInf} \cup (0 .. MaxBlocks)
    /\ UNCHANGED vars

\* is_a_before_b(a, b): no attribute is assigned
BlockchainIsABeforeB(a, b) ==
    /\ blockchain_is_a_before_b(blockchain, a, b) \in {None, PyBool(FALSE), PyBool(TRUE)}
    /\ UNCHANGED vars

\* get_virtual_block_parents(): no attribute is assigned
BlockchainGetVirtualBlockParents ==
    /\ blockchain_get_virtual_block_parents(blockchain) \subseteq GlobalIDs
    /\ UNCHANGED vars

NextBlockchain ==
    \/ \E global_id \in GlobalIDs : \E parents \in SUBSET GlobalIDs :
          BlockchainAdd(global_id, parents)
    \/ \E global_id \in GlobalIDs : BlockchainGetDepth(global_id)
    \/ \E a \in GlobalIDs : \E b \in GlobalIDs : BlockchainIsABeforeB(a, b)
    \/ BlockchainGetVirtualBlockParents

SpecBlockchain == InitBlockchain /\ [][NextBlockchain]_vars


\* ---------------------------------------------------------------- claims
\* the graph-theoretic notions the claims are stated in
Blocks == DOMAIN dag.G

Past(b) == phantom_get_past(dag.G, b)

Anticone(b) == phantom_get_anticone(dag.G, b)

\* the coloring chain of a block, from the block down to the genesis
ColoringChainOf(b) == coloring_chain_generator(dag.G, b)

BlueDiffSize(c) == Cardinality(Keys(dag.G[c].blue_diff_past_order))

\* C1: for all blocks a, b of the greedy DAG with a in the past of b,
\* is_a_before_b(a, b) returns true and local_id(a) < local_id(b).
C1_PastIsBefore ==
    \A b \in Blocks : \A a \in Past(b) :
        LET r == is_a_before_b(dag, a, b)
        IN /\ r.value = PyBool(TRUE)
           /\ get_local_id(r.dag, a).value < get_local_id(r.dag, b).value

\* C2: every block that is blue in the global coloring has at most k blue
\* blocks in its anticone.
C2_BlueAnticoneAtMostK ==
    LET blue == get_coloring(dag).value
    IN \A b \in blue : Cardinality(Anticone(b) \cap blue) <= dag.k

\* C3: the set of blue blocks of GreedyPHANTOM equals the set of blue blocks
\* of brute-force PHANTOM, for the same k and the same insertion order.
C3_GreedyEqualsBruteForce == get_coloring(dag).value = bf.coloring

\* C4: for every block g, _get_past(g) contains exactly the proper
\* ancestors of g.
C4_GetPastIsPast ==
    \A g \in Blocks : LazySetIter(get_past(dag, g)) = Past(g)

\* C5: for every block g, _get_antipast(g) contains exactly the blocks of
\* the DAG that are not proper ancestors of g.
C5_GetAntipastIsComplement ==
    \A g \in Blocks : LazySetIter(get_antipast(dag, g)) = Blocks \ Past(g)

\* C6: the keys of blue_diff_past_order(b) and red_diff_past_order(b) are
\* disjoint and their union is past(b) minus past(coloring_parent(b)).
C6_DiffPastPartition ==
    \A b \in Blocks :
        LET blue == Keys(dag.G[b].blue_diff_past_order)
            red == Keys(dag.G[b].red_diff_past_order)
            coloring_parent == dag.G[b].coloring_parent
        IN /\ blue \cap red = {}
           /\ blue \cup red =
                Past(b) \ (IF coloring_parent = None THEN {} ELSE Past(coloring_parent))

\* C7: the coloring tip is the block with the largest blue_number among all
\* blocks of the DAG, ties broken in favour of the smaller id.
C7_TipIsBluest ==
    Blocks # {} =>
        /\ dag.coloring_tip_gid \in Blocks
        /\ \A c \in Blocks \ {dag.coloring_tip_gid} :
              \/ dag.G[dag.coloring_tip_gid].blue_number > dag.G[c].blue_number
              \/ /\ dag.G[dag.coloring_tip_gid].blue_number = dag.G[c].blue_number
                 /\ dag.coloring_tip_gid < c

\* a third block took the tip from an earlier block on its blue number
C7_Witness ==
    /\ Len(dag.nodes) >= 3
    /\ dag.coloring_tip_gid # dag.nodes[1]
    /\ \E c \in Blocks : c < dag.coloring_tip_gid
                         /\ dag.G[c].blue_number < dag.G[dag.coloring_tip_gid].blue_number

\* C8: coloring_parent(b) is one of b's parents and the bluest of them
\* (greatest blue_number, ties: smaller id); it is null exactly when b has
\* no parents.
C8_ColoringParentIsBluestParent ==
    \A b \in Blocks :
        LET coloring_parent == dag.G[b].coloring_parent
            parents == dag.G[b].parents
        IN /\ (coloring_parent = None) <=> (parents = {})
           /\ coloring_parent # None =>
                /\ coloring_parent \in parents
                /\ \A p \in parents \ {coloring_parent} :
                      \/ dag.G[coloring_parent].blue_number > dag.G[p].blue_number
                      \/ /\ dag.G[coloring_parent].blue_number = dag.G[p].blue_number
                         /\ coloring_parent < p

\* a block whose coloring parent is not its smallest parent: the blue
\* numbers, not the ids, decided
C8_Witness ==
    \E b \in Blocks :
        /\ Cardinality(dag.G[b].parents) >= 2
        /\ dag.G[b].coloring_parent # Min(dag.G[b].parents)

KChainIsPrefix(chain, n) ==
    /\ n <= Len(chain)
    /\ dag.k_chain.global_ids = {chain[i] : i \in 1 .. n}

\* C10 as claimed: the main k-chain is the part of the coloring chain that
\* ends at the tip, the blue diff-past blocks of its members number at most
\* k, and minimal_height is the height of its lowest member.
C10_KChainSumAtMostK ==
    Blocks # {} =>
        LET chain == ColoringChainOf(dag.coloring_tip_gid)
            n == Cardinality(dag.k_chain.global_ids)
        IN /\ n >= 1
           /\ KChainIsPrefix(chain, n)
           /\ SumSeq([i \in 1 .. n |-> BlueDiffSize(chain[i])]) <= dag.k
           /\ dag.k_chain.minimal_height = dag.G[chain[n]].height

\* C10 as amended: the main k-chain is the part of the coloring chain that
\* ends at the tip and stops right after the first member at which the
\* cumulative number of blue diff-past blocks exceeds k (the whole chain if
\* none does): the members above the lowest one add at most k, the lowest
\* member is the genesis end of the chain or brings the sum above k, and
\* minimal_height is the height of the lowest member.
C10_KChainStopsAfterExceedingK ==
    Blocks # {} =>
        LET chain == ColoringChainOf(dag.coloring_tip_gid)
            n == Cardinality(dag.k_chain.global_ids)
        IN /\ n >= 1
           /\ KChainIsPrefix(chain, n)
           /\ SumSeq([i \in 1 .. n - 1 |-> BlueDiffSize(chain[i])]) <= dag.k
           /\ \/ n = Len(chain)
              \/ SumSeq([i \in 1 .. n |-> BlueDiffSize(chain[i])]) > dag.k
           /\ dag.k_chain.minimal_height = dag.G[chain[n]].height

\* the k-chain was cut: it is shorter than the coloring chain and its
\* members add more than k blue blocks
C10_Witness ==
    /\ Blocks # {}
    /\ Cardinality(dag.k_chain.global_ids)
         < Len(ColoringChainOf(dag.coloring_tip_gid))
    /\ SumSeq([i \in 1 .. Cardinality(dag.k_chain.global_ids) |->
                 BlueDiffSize(ColoringChainOf(dag.coloring_tip_gid)[i])]) > dag.k

\* C11: set_k with k = 0 is accepted, and with k = 0 the global coloring
\* after any sequence of adds contains only the blocks of the coloring chain.
C11_KZeroColoringIsChain ==
    /\ set_k(dag, 0).k = 0
    /\ dag.k = 0 => get_coloring(dag).value \subseteq dag.coloring_chain

\* C12: get_depth(x) is negative infinity for a block that is not in the
\* DAG; 0 for a block in the antipast of the coloring tip or in the red
\* diff-past of a coloring-chain block; otherwise 1 plus the blue diff-past
\* sizes of the chain blocks from the tip down to, but excluding, the chain
\* block whose blue diff-past holds x.  A lone genesis has depth 0 and in
\* the chain 0 <- 1 the genesis has depth 1.
C12_GetDepth ==
    LET tip == dag.coloring_tip_gid
        chain == ColoringChainOf(tip)
        reds == UNION {Keys(dag.G[chain[i]].red_diff_past_order) : i \in 1 .. Len(chain)}
        holders(x) == {i \in 1 .. Len(chain) :
                          x \in Keys(dag.G[chain[i]].blue_diff_past_order)}
    IN /\ \A x \in GlobalIDs \ Blocks : get_depth(dag, x) = NegInf
       /\ \A x \in Blocks :
            IF x \in (Blocks \ Past(tip)) \cup reds
            THEN get_depth(dag, x) = 0
            ELSE /\ holders(x) # {}
                 /\ get_depth(dag, x) =
                      1 + SumSeq([j \in 1 .. Min(holders(x)) - 1 |-> BlueDiffSize(chain[j])])
       /\ Len(dag.nodes) = 1 => get_depth(dag, dag.nodes[1]) = 0
       /\ (Len(dag.nodes) = 2 /\ dag.nodes[1] < dag.nodes[2]) =>
             get_depth(dag, dag.nodes[1]) = 1

\* C13: is_a_before_b(a, b) is null if neither a nor b is in the DAG; if
\* exactly one of them is in the DAG the present one is earlier (true when
\* only a is present, false when only b is); if both are in the DAG it is
\* true exactly when local_id(a) <= local_id(b), so it is true for a = b.
\* Checked on the greedy and on the brute-force engine.
C13_IsABeforeBTriValued ==
    \A a \in GlobalIDs : \A b \in GlobalIDs :
        LET r == is_a_before_b(dag, a, b)
            p == phantom_is_a_before_b(bf, a, b)
        IN /\ (a \notin Blocks /\ b \notin Blocks) =>
                (r.value = None /\ p = None)
           /\ (a \in Blocks /\ b \notin Blocks) =>
                (r.value = PyBool(TRUE) /\ p = PyBool(TRUE))
           /\ (a \notin Blocks /\ b \in Blocks) =>
                (r.value = PyBool(FALSE) /\ p = PyBool(FALSE))
           /\ (a \in Blocks /\ b \in Blocks) =>
                /\ r.value = PyBool(get_local_id(r.dag, a).value
                                      <= get_local_id(r.dag, b).value)
                /\ p = PyBool(phantom_get_local_id(bf, a) <= phantom_get_local_id(bf, b))
                /\ a = b => (r.value = PyBool(TRUE) /\ p = PyBool(TRUE))

\* the blocks of the DAG that no block names as a parent
Childless == {b \in Blocks : \A c \in Blocks : b \notin dag.G[c].parents}

\* C14: when every block is added once and after all of its parents,
\* virtual_block_parents() returns exactly the blocks of the DAG that have
\* no children; it is empty only for the empty DAG.  Checked on the greedy
\* and on the brute-force engine.
C14_VirtualBlockParentsAreChildless ==
    /\ get_virtual_block_parents(dag) = Childless
    /\ get_virtual_block_parents(bf) = Childless
    /\ (get_virtual_block_parents(dag) = {}) <=> (Blocks = {})

\* a DAG with two childless blocks and a block that has a child
C14_Witness ==
    /\ Cardinality(get_virtual_block_parents(dag)) >= 2
    /\ Blocks \ get_virtual_block_parents(dag) # {}

\* what C15 says a query leaves alone: the block set, the leaves, the
\* coloring tip, the coloring chain, the k-chain and every block's diff-past
\* mappings (they are fields of the nodes of G)
QueryFrame(s) == <<s.nodes, s.G, s.leaves, s.coloring_tip_gid, s.coloring_chain, s.k_chain>>

\* the answers of the engine s agree with those of the engine r
SameAnswers(s, r) ==
    /\ \A a \in GlobalIDs : \A b \in GlobalIDs :
          is_a_before_b(s, a, b).value = is_a_before_b(r, a, b).value
    /\ \A x \in GlobalIDs : get_depth(s, x) = get_depth(r, x)
    /\ get_coloring(s).value = get_coloring(r).value

\* C15: is_a_before_b and get_depth are read-only: a call changes neither
\* the block set, the leaves, the coloring tip, the coloring chain, the
\* k-chain nor any block's diff-past mappings, and every later
\* is_a_before_b, get_depth or colouring answer is the one of a run of the
\* same adds without those calls (the engine that set_k's replay of the adds
\* builds).
C15_QueriesAreReadOnly ==
    /\ [](\A replayed \in {set_k(dag, dag.k)} : SameAnswers(dag, replayed))
    /\ [][((\E a \in GlobalIDs : \E b \in GlobalIDs : IsABeforeB(a, b))
             \/ (\E x \in GlobalIDs : GetDepth(x)))
          => QueryFrame(dag') = QueryFrame(dag)]_vars

\* the greedy engine once a first query has ordered the antipast
Ordered == IF dag.nodes = <<>> THEN dag ELSE get_local_id(dag, dag.nodes[1]).dag

\* the local id of a block of the greedy engine, as is_a_before_b reads it
LocalId(b) == get_local_id(Ordered, b).value

\* C16: on a DAG of n blocks the local ids behind is_a_before_b are the
\* indices of a single topological order: they map the n blocks one-to-one
\* onto 0 .. n - 1, the first block has index 0, a block comes after its
\* past, and for any two distinct blocks a and b exactly one of
\* is_a_before_b(a, b) and is_a_before_b(b, a) is true.  Checked on the
\* greedy and on the brute-force engine.
C16_LocalIdsAreOneTopologicalOrder ==
    LET n == Len(dag.nodes)
    IN /\ {LocalId(b) : b \in Blocks} = 0 .. n - 1
       /\ {phantom_get_local_id(bf, b) : b \in Blocks} = 0 .. n - 1
       /\ n >= 1 => (LocalId(dag.nodes[1]) = 0 /\ phantom_get_local_id(bf, bf.nodes[1]) = 0)
       /\ \A b \in Blocks : \A a \in Past(b) :
             /\ LocalId(a) < LocalId(b)
             /\ phantom_get_local_id(bf, a) < phantom_get_local_id(bf, b)
       /\ \A a \in Blocks : \A b \in Blocks \ {a} :
             /\ (is_a_before_b(dag, a, b).value = PyBool(TRUE))
                  # (is_a_before_b(dag, b, a).value = PyBool(TRUE))
             /\ (phantom_is_a_before_b(bf, a, b) = PyBool(TRUE))
                  # (phantom_is_a_before_b(bf, b, a) = PyBool(TRUE))

C18_SuccessSurvivesHonestAdds ==
    [][\A global_id \in GlobalIDs : \A parents \in SUBSET GlobalIDs :
          (did_attack_succeed(cc).value /\ CCAdd(global_id, parents, FALSE))
             => did_attack_succeed(cc').value]_vars

\* the antipast of the coloring tip of the honest DAG: the blocks of the
\* honest DAG outside the past of the tip
HonestTipAntipast(c) ==
    DOMAIN c.honest_dag.G
        \ phantom_get_past(c.honest_dag.G, c.honest_dag.coloring_tip_gid)

\* C19: when did_attack_fail() is true and the DAG holds more than one
\* block, get_virtual_block_parents(is_malicious=true) restarts the attack:
\* afterwards the queue of pending malicious blocks is empty,
\* competing_chain_tip_gid and first_parallel_block_gid are null,
\* currently_attacked_block_gid is the coloring tip of the honest DAG and
\* competing_chain_tip_antipast is the antipast of that tip; when an attack
\* is in progress the call changes no state.
C19_RestartAttack ==
    [][CCGetVirtualBlockParents(TRUE) =>
          /\ (did_attack_fail(cc) /\ Len(cc.dag.nodes) > 1) =>
                /\ cc'.malicious_blocks_to_add_to_honest_dag = <<>>
                /\ cc'.competing_chain_tip_gid = None
                /\ cc'.first_parallel_block_gid = None
                /\ cc'.currently_attacked_block_gid = cc'.honest_dag.coloring_tip_gid
                /\ cc'.competing_chain_tip_antipast = HonestTipAntipast(cc')
          /\ ~did_attack_fail(cc) => cc' = cc]_vars

\* C20 as stated: the honest DAG holds all inserted honest blocks and none
\* of the malicious ones, i.e. no block ever leaves the honest DAG and a
\* block enters it only in the step that adds it as an honest block.
C20_HonestDagHoldsHonestBlocksOnly ==
    [][/\ DOMAIN cc.honest_dag.G \subseteq DOMAIN cc'.honest_dag.G
       /\ \A global_id \in DOMAIN cc'.honest_dag.G \ DOMAIN cc.honest_dag.G :
             \E parents \in SUBSET GlobalIDs : CCAdd(global_id, parents, FALSE)]_vars

\* C20 amended: the honest DAG holds every inserted block except the
\* malicious blocks that wait in the queue, and a block enters the queue
\* only in the step that adds it as a malicious block.
C20_HonestDagHoldsAllButPendingBlocks ==
    /\ [](DOMAIN cc.honest_dag.G
            = DOMAIN cc.dag.G \ Range(cc.malicious_blocks_to_add_to_honest_dag))
    /\ [][\A global_id \in Range(cc'.malicious_blocks_to_add_to_honest_dag)
                            \ Range(cc.malicious_blocks_to_add_to_honest_dag) :
             \E parents \in SUBSET GlobalIDs : CCAdd(global_id, parents, TRUE)]_vars

\* a malicious block waits in the queue while the malicious block that
\* started the attack is already in the honest DAG
C20_Witness ==
    /\ cc.malicious_blocks_to_add_to_honest_dag # <<>>
    /\ cc.first_parallel_block_gid \in DOMAIN cc.honest_dag.G

\* the ids of the combined DAG that are not ancestors of the competing
\* chain's tip (the tip itself is one of them)
NotAncestorsOfCompetingChainTip(c) ==
    DOMAIN c.dag.G \ phantom_get_past(c.dag.G, c.competing_chain_tip_gid)

\* C21: while an attack is in progress (did_attack_fail() is false), after
\* every add competing_chain_tip_antipast equals the set of ids in the
\* combined DAG that are not ancestors of competing_chain_tip_gid.
C21_CompetingChainTipAntipast ==
    [][\A global_id \in GlobalIDs : \A parents \in SUBSET GlobalIDs :
          \A is_malicious \in BOOLEAN :
             (CCAdd(global_id, parents, is_malicious) /\ ~did_attack_fail(cc'))
                => cc'.competing_chain_tip_antipast
                     = NotAncestorsOfCompetingChainTip(cc')]_vars

\* a is an ancestor of b in the combined DAG
IsAncestor(c, a, b) == a \in phantom_get_past(c.dag.G, b)

\* no member of the set is an ancestor of another member
BottomMost(c, blocks) ==
    \A a \in blocks : \A b \in blocks : ~IsAncestor(c, a, b)

\* C22: the set held in virtual_competing_chain_block_parents, after a
\* restart and after every add during an attack, consists of bottom-most
\* blocks only: no member of the set is an ancestor of another member.
C22_VirtualCompetingChainBlockParentsAreBottomMost ==
    [][/\ (CCGetVirtualBlockParents(TRUE) /\ did_attack_fail(cc)
             /\ Len(cc.dag.nodes) > 1)
            => BottomMost(cc', cc'.virtual_competing_chain_block_parents)
       /\ \A global_id \in GlobalIDs : \A parents \in SUBSET GlobalIDs :
             \A is_malicious \in BOOLEAN :
                (CCAdd(global_id, parents, is_malicious) /\ ~did_attack_fail(cc'))
                   => BottomMost(cc', cc'.virtual_competing_chain_block_parents)]_vars

\* blue_number(honest coloring tip) - blue_number(competing chain tip)
DepthDifference(c) ==
    c.honest_dag.G[c.honest_dag.coloring_tip_gid].blue_number
        - c.dag.G[c.competing_chain_tip_gid].blue_number

\* C23: whenever did_attack_fail() is false after an add, the difference
\* blue_number(honest coloring tip) - blue_number(competing chain tip) is at
\* most maximal_depth_difference (a larger difference stops the attack
\* within that add).
C23_ViableAfterAdd ==
    [][\A global_id \in GlobalIDs : \A parents \in SUBSET GlobalIDs :
          \A is_malicious \in BOOLEAN :
             (CCAdd(global_id, parents, is_malicious) /\ ~did_attack_fail(cc'))
                => DepthDifference(cc') <= cc'.maximal_depth_difference]_vars

\* a fresh GreedyPHANTOM engine with parameter k to which the first n
\* blocks of s were added in the order of their insertion
RECURSIVE Replayed(_, _, _)
Replayed(s, k, n) ==
    IF n = 0 THEN GreedyPHANTOM(k)
    ELSE add(Replayed(s, k, n - 1), s.nodes[n], s.G[s.nodes[n]].parents)

\* a fresh CompetingChainGreedyPHANTOM engine with parameter k and the
\* confirmation_depth and maximal_depth_difference of c to which the first
\* n blocks of c were added in the order of their insertion
RECURSIVE ReplayedCC(_, _, _)
ReplayedCC(c, k, n) ==
    IF n = 0
    THEN CompetingChainGreedyPHANTOM(k, c.confirmation_depth, c.maximal_depth_difference)
    ELSE cc_add(ReplayedCC(c, k, n - 1), c.dag.nodes[n],
                c.dag.G[c.dag.nodes[n]].parents, FALSE)

\* the coloring and the depth answers of two engines agree (every answer,
\* those of is_a_before_b too, is computed from the attributes alone, so
\* engines with equal attributes give equal answers)
SameColoringAndDepth(s, r) ==
    /\ get_coloring(s).value = get_coloring(r).value
    /\ \A a \in GlobalIDs : get_depth(s, a) = get_depth(r, a)

\* what C24 says of the engine c, of the engines set_k(k) makes of it
\* (after: the competing-chain engine, after_dag: the greedy engine) and of
\* the fresh engines with the same blocks
SetKIsFresh(c, k, after, after_dag, fresh, fresh_dag) ==
    /\ after = fresh
    /\ after_dag = fresh_dag
    /\ after.dag = after_dag
    /\ after_dag.k = k
    /\ after.confirmation_depth = c.confirmation_depth
    /\ after.maximal_depth_difference = c.maximal_depth_difference
    /\ DOMAIN after_dag.G = DOMAIN c.dag.G
    /\ after_dag.nodes = c.dag.nodes
    /\ after_dag.leaves = c.dag.leaves
    /\ SameColoringAndDepth(after_dag, fresh_dag)

RECURSIVE ReferenceUpTo(_, _)
ReferenceUpTo(L, n) ==
    IF n = 0 THEN {}
    ELSE IF n \in L.positive_indices THEN ReferenceUpTo(L, n - 1) \cup L.sets[n]
    ELSE ReferenceUpTo(L, n - 1) \ L.sets[n]

Reference(L) == ReferenceUpTo(L, Len(L.sets))

\* membership, iteration (each element once) and length of L are those of
\* the set ref
AgreesWith(L, ref) ==
    /\ \A x \in Elems : LazySetContains(L, x) <=> x \in ref
    /\ Range(LazySetItems(L)) = ref
    /\ Len(LazySetItems(L)) = Cardinality(ref)
    /\ LazySetIter(L) = ref
    /\ LazySetLen(L) = Cardinality(ref)

\* C25: for a LazySet built by unions and differences of sets, flatten
\* yields the set of the reference evaluation (the base set less the
\* negative sets plus the positive sets, in order), and membership,
\* iteration (each present element exactly once) and length agree with that
\* set before and after flattening.
C25_LazySetIsReferenceSet ==
    /\ flatten_to_set(lazy_set) = Reference(lazy_set)
    /\ AgreesWith(lazy_set, Reference(lazy_set))
    /\ AgreesWith(flatten(lazy_set), Reference(lazy_set))

\* three layers, a positive one between two negative ones, each sharing an
\* element with the next: an element removed before it was added is
\* present, one removed after it was added is not
C25_Witness ==
    /\ Len(lazy_set.sets) = 3
    /\ lazy_set.positive_indices = {2}
    /\ lazy_set.sets[1] \cap lazy_set.sets[2] # {}
    /\ lazy_set.sets[2] \cap lazy_set.sets[3] # {}
    /\ lazy_set.sets[1] \cap Reference(lazy_set) # {}

\* C26: after flatten the LazySet has exactly one positive layer and no
\* negative layers, whatever layers it held.
C26_FlattenLeavesOnePositiveLayer ==
    /\ Len(flatten(lazy_set).sets) = 1
    /\ flatten(lazy_set).positive_indices = {1}

\* the elements of a LazySet, by membership
Contents(L) == {x \in Elems : LazySetContains(L, x)}

\* C27: remove(x) for an absent x raises KeyError with x as its argument
\* and pop() on an empty LazySet raises KeyError, both leaving the contents
\* unchanged; discard(x) for an absent x raises nothing and leaves the
\* contents unchanged.
C27_AbsentElementCalls ==
    [][/\ \A elem \in Elems :
             (LazyRemove(elem) /\ elem \notin Contents(lazy_set))
                => /\ raised' = KeyError(<<elem>>)
                   /\ Contents(lazy_set') = Contents(lazy_set)
       /\ (LazyPop /\ Contents(lazy_set) = {})
             => /\ raised'.type = "KeyError"
                /\ Contents(lazy_set') = Contents(lazy_set)
       /\ \A elem \in Elems :
             (LazyDiscard(elem) /\ elem \notin Contents(lazy_set))
                => /\ raised' = NoException
                   /\ Contents(lazy_set') = Contents(lazy_set)]_vars

\* remove has raised KeyError on a LazySet that holds other elements
C27_Witness ==
    /\ raised = KeyError(<<0>>)
    /\ Contents(lazy_set) # {}
    /\ Len(lazy_set.sets) > 1

\* the blocks on the path of parent edges from a block to a block without
\* a parent
RECURSIVE ParentPath(_, _)
ParentPath(G, gid) ==
    IF gid = None THEN {} ELSE {gid} \cup ParentPath(G, G[gid].parent)

\* the block of the greatest chain length, the smaller id on a tie
IsLongestTip(G, tip) ==
    /\ tip \in DOMAIN G
    /\ \A g \in DOMAIN G :
          \/ G[g].chain_length < G[tip].chain_length
          \/ G[g].chain_length = G[tip].chain_length /\ tip <= g

\* C28: after any sequence of adds, longest_chain_tip is the block with the
\* greatest chain_length (ties: smaller id) and the longest-chain set is
\* exactly the set of blocks on the parent path from that tip back to the
\* first block, also after a reorganisation to another branch.
C28_LongestChain ==
    blockchain.nodes # <<>> =>
        /\ IsLongestTip(blockchain.G, blockchain.longest_chain_tip_gid)
        /\ blockchain.longest_chain
              = ParentPath(blockchain.G, blockchain.longest_chain_tip_gid)
        /\ blockchain.nodes[1] \in blockchain.longest_chain
        /\ \A g \in DOMAIN blockchain.G :
              blockchain.G[g].chain_length = Cardinality(ParentPath(blockchain.G, g))

\* the longest chain runs through a block that loses the tie-break at its
\* own height: the chain was reorganised to the branch of that block
C28_Witness ==
    \E g \in DOMAIN blockchain.G \ blockchain.longest_chain :
        \E h \in blockchain.longest_chain :
            /\ blockchain.G[g].chain_length = blockchain.G[h].chain_length
            /\ g < h

\* C29: for every DAG variant, Blockchain included, is_a_before_b(a, b)
\* returns null if neither a nor b is present in the DAG, and a boolean
\* whenever at least one of them is present.
C29_BlockchainIsABeforeBTriValued ==
    \A a \in GlobalIDs : \A b \in GlobalIDs :
        IF a \notin DOMAIN blockchain.G /\ b \notin DOMAIN blockchain.G
        THEN blockchain_is_a_before_b(blockchain, a, b) = None
        ELSE blockchain_is_a_before_b(blockchain, a, b) \in {PyBool(FALSE), PyBool(TRUE)}

\* C30: Blockchain.get_depth(id) is chain_length(tip) - chain_length(id)
\* for a block on the longest chain, 0 for a block in the DAG off the
\* longest chain, negative infinity for an absent id; the virtual block's
\* parents are {longest_chain_tip}, and the empty set when no block has
\* been added.
C30_BlockchainDepthAndVirtualParents ==
    /\ \A id \in GlobalIDs :
          blockchain_get_depth(blockchain, id) =
              IF id \notin DOMAIN blockchain.G THEN NegInf
              ELSE IF id \in ParentPath(blockchain.G, blockchain.longest_chain_tip_gid)
              THEN blockchain.G[blockchain.longest_chain_tip_gid].chain_length
                     - blockchain.G[id].chain_length
              ELSE 0
    /\ IF blockchain.nodes = <<>>
       THEN blockchain_get_virtual_block_parents(blockchain) = {}
       ELSE \E tip \in DOMAIN blockchain.G :
               /\ IsLongestTip(blockchain.G, tip)
               /\ blockchain_get_virtual_block_parents(blockchain) = {tip}

\* a block below the tip on the longest chain and a block off it
C30_Witness ==
    /\ \E id \in DOMAIN blockchain.G : blockchain_get_depth(blockchain, id) >= 2
    /\ \E id \in DOMAIN blockchain.G : id \notin blockchain.longest_chain

\* a is a proper ancestor of b in the brute-force DAG
BfAncestor(a, b) == a \in phantom_get_past(bf.G, b)

\* the blocks of C that are neither ancestors nor descendants of v
BfAnticoneIn(v, C) ==
    {w \in C : w # v /\ ~BfAncestor(w, v) /\ ~BfAncestor(v, w)}

\* every block of C has at most k blocks of C in its anticone
KBounded(C) == \A v \in C : Cardinality(BfAnticoneIn(v, C)) <= bf.k

\* C31: after each add, the coloring C of brute-force PHANTOM is a largest
\* subset of the DAG's blocks such that every v in C has at most k blocks
\* of C in its anticone: C satisfies the bound and no subset of the blocks
\* that satisfies it has more members than C.
C31_BruteForceColoringIsLargest ==
    /\ bf.coloring \subseteq DOMAIN bf.G
    /\ KBounded(bf.coloring)
    /\ \A D \in SUBSET DOMAIN bf.G :
          KBounded(D) => Cardinality(D) <= Cardinality(bf.coloring)

\* k = 1, a red block, and a blue block with a blue block in its anticone
C31_Witness ==
    /\ bf.k = 1
    /\ DOMAIN bf.G \ bf.coloring # {}
    /\ \E v \in bf.coloring : BfAnticoneIn(v, bf.coloring) # {}

\* the blocks on the path of coloring_parent links from a block down to a
\* block without a coloring parent
RECURSIVE ColoringParentPath(_)
ColoringParentPath(b) ==
    IF b = None THEN {} ELSE {b} \cup ColoringParentPath(dag.G[b].coloring_parent)

\* C32: after any sequence of adds, also adds that move the coloring tip to
\* another branch, the stored coloring-chain set is exactly the set of
\* blocks on the path that starts at the coloring tip and follows
\* coloring_parent links down to the genesis.
C32_ColoringChainIsPathFromTip ==
    /\ dag.coloring_chain = ColoringParentPath(dag.coloring_tip_gid)
    /\ dag.nodes # <<>> => dag.nodes[1] \in dag.coloring_chain

\* a block that was the bluest of the blocks added up to it, hence the
\* coloring tip after its add, is no longer on the coloring chain
C32_Witness ==
    \E i \in 2 .. Len(dag.nodes) :
        /\ dag.nodes[i] \notin dag.coloring_chain
        /\ \A j \in 1 .. i - 1 : is_a_bluer_than_b(dag.G, dag.nodes[i], dag.nodes[j])

\* the blocks whose diff-past maps are stacked in a global past order (the
\* empty map a ChainMap starts with is not a block's)
StackedIn(past_order) ==
    {past_order[i] : i \in 1 .. Len(past_order)} \ {None}

\* a global past order stacks the diff-past map of each block of the
\* coloring chain once, and no other
StacksColoringChain(past_order) ==
    /\ StackedIn(past_order) = dag.coloring_chain
    /\ Len(past_order) = Cardinality(dag.coloring_chain) + 1

\* C38: after any sequence of adds, the per-block diff-past maps stacked in
\* the global blue and red past orders are exactly the diff-past maps of
\* the blocks currently on the coloring chain, so the ids in the global
\* past order are exactly the proper ancestors of the coloring tip; an add
\* that moves the coloring tip and removes j blocks from the coloring chain
\* removes from the global past order the diff-pasts of exactly those j
\* blocks and of no others, also when an earlier tip change put several
\* blocks on the chain at once.
C38_PastOrderStacksColoringChain ==
    /\ [](/\ StacksColoringChain(dag.blue_past_order)
          /\ StacksColoringChain(dag.red_past_order)
          /\ dag.coloring_tip_gid # None =>
                ChainMapKeys(past_order_maps(dag)) = Past(dag.coloring_tip_gid))
    /\ [][/\ StackedIn(dag.blue_past_order) \ StackedIn(dag.blue_past_order')
               = dag.coloring_chain \ dag.coloring_chain'
          /\ StackedIn(dag.red_past_order) \ StackedIn(dag.red_past_order')
               = dag.coloring_chain \ dag.coloring_chain']_vars

\* the siblings S in the order the reference visits them: the coloring
\* parent first, then the blue blocks by ascending id, then the red ones
SiblingOrder(S, coloring_parent, blue) ==
    (IF coloring_parent = None THEN <<>> ELSE <<coloring_parent>>)
    \o sorted((S \ {coloring_parent}) \cap blue)
    \o sorted((S \ {coloring_parent}) \ blue)

\* the depth-first post-order of the blocks of to_visit and their
\* ancestors, after the blocks of ordered
RECURSIVE PostOrder(_, _, _)
PostOrder(to_visit, ordered, blue) ==
    IF to_visit = <<>> THEN ordered
    ELSE LET b == Head(to_visit)
         IN IF b \in Range(ordered) THEN PostOrder(Tail(to_visit), ordered, blue)
            ELSE PostOrder(Tail(to_visit),
                     Append(PostOrder(SiblingOrder(dag.G[b].parents,
                                          dag.G[b].coloring_parent, blue),
                                      ordered, blue), b),
                     blue)

\* the order computed from scratch over the whole DAG
ReferenceOrder ==
    PostOrder(SiblingOrder(dag.leaves, dag.coloring_tip_gid, get_coloring(dag).value),
              <<>>, get_coloring(dag).value)

\* C33: after each add, the total order that GreedyPHANTOM maintains
\* incrementally (the diff-past orders of the coloring-chain blocks, then
\* the lazily ordered antipast) is the order computed from scratch over the
\* whole DAG by a depth-first post-order from the current leaves that,
\* among siblings, visits the coloring parent first (the coloring tip at
\* the top level), then the blue blocks in ascending id, then the red
\* blocks in ascending id.
C33_IncrementalOrderIsReferenceOrder ==
    /\ Range(ReferenceOrder) = Blocks
    /\ \A a \in Blocks : \A b \in Blocks :
          (LocalId(a) < LocalId(b))
             <=> (node_index(ReferenceOrder, a) < node_index(ReferenceOrder, b))

\* the blocks of the combined DAG that are not ancestors of tip
AntipastOf(tip) ==
    {g \in DOMAIN cc.dag.G : g \notin phantom_get_past(cc.dag.G, tip)}

\* the attacker's tip is bluer than g and than none of the descendants of g
BluerThanButNotThanDescendants(tip, g) ==
    /\ is_a_bluer_than_b(cc.dag.G, tip, g)
    /\ phantom_get_future(cc.dag.G, g) # {}
    /\ \A d \in phantom_get_future(cc.dag.G, g) :
          ~is_a_bluer_than_b(cc.dag.G, tip, d)

\* C34: in the bluer-than-parent selection that computes
\* virtual_competing_chain_block_parents, when the attacker's tip is not
\* bluer than a visited block g the search goes on to the parents of g, so
\* a block of the tip's antipast that the tip is bluer than is selected as
\* a candidate parent when it lies below a leaf that the tip is not bluer
\* than (here: below blocks none of which the tip is bluer than, so that
\* no selected descendant removes it again).
C34_SearchReachesBlocksBelowLeaves ==
    \A tip \in DOMAIN cc.dag.G :
        \A g \in AntipastOf(tip) :
            BluerThanButNotThanDescendants(tip, g)
               => g \in get_competing_chain_tip_parents(cc, tip, AntipastOf(tip),
                                                        cc.dag.G[tip].parents)

\* the competing chain tip is in the set and bluer than every other member
TipLeadsParents(c) ==
    /\ c.competing_chain_tip_gid \in c.virtual_competing_chain_block_parents
    /\ \A g \in c.virtual_competing_chain_block_parents \ {c.competing_chain_tip_gid} :
          is_a_bluer_than_b(c.dag.G, c.competing_chain_tip_gid, g)

TipLeadsParentsOrIsBelowThem(c) ==
    /\ \/ c.competing_chain_tip_gid \in c.virtual_competing_chain_block_parents
       \/ \E g \in c.virtual_competing_chain_block_parents :
             IsAncestor(c, c.competing_chain_tip_gid, g)
    /\ \A g \in c.virtual_competing_chain_block_parents \ {c.competing_chain_tip_gid} :
          is_a_bluer_than_b(c.dag.G, c.competing_chain_tip_gid, g)

C36_FlattenFrame ==
    [][\A modify \in BOOLEAN :
          SharedFlatten(modify) =>
             /\ Contents(shared_values(shared')) = Contents(shared_values(shared))
             /\ ~modify => SubSeq(shared'.objects, 1, MaxObjects)
                              = SubSeq(shared.objects, 1, MaxObjects)
             /\ (modify /\ shared.positive_indices # {}) =>
                   shared'.sets \in {<<>>, <<shared.sets[Min(shared.positive_indices)]>>}]_vars

\* C37: a miner inserts a block into its DAG only when all of the block's
\* parents are already in that DAG: a block received while a parent is
\* missing is held in the miner's queue (add_block returns false and the
\* DAG is unchanged), and as soon as its last missing parent has been
\* inserted the block, and every queued descendant whose parents are then
\* all present, is inserted, whatever order the blocks arrived in.
ParentsOf(global_id) == network.total_network_dag[global_id].parents

ParentsFirst(nodes) ==
    \A i \in 1 .. Len(nodes) : ParentsOf(nodes[i]) \subseteq {nodes[j] : j \in 1 .. i - 1}

RECURSIVE AddSmallestFirst(_, _)
AddSmallestFirst(s, G) ==
    LET ready == {g \in DOMAIN G \ DOMAIN s.G : G[g].parents \subseteq DOMAIN s.G}
    IN IF ready = {} THEN s
       ELSE AddSmallestFirst(add(s, Min(ready), G[Min(ready)].parents), G)

SameBlockData(s, t) ==
    \A g \in DOMAIN s.G :
        /\ s.G[g].height = t.G[g].height
        /\ s.G[g].coloring_parent = t.G[g].coloring_parent
        /\ s.G[g].blue_number = t.G[g].blue_number

SameChain(s, t) ==
    /\ s.coloring_tip_gid = t.coloring_tip_gid
    /\ s.coloring_chain = t.coloring_chain

SameQueryAnswers(s, t) ==
    /\ get_coloring(s).value = get_coloring(t).value
    /\ \A a, b \in DOMAIN s.G : is_a_before_b(s, a, b).value = is_a_before_b(t, a, b).value
    /\ \A g \in DOMAIN s.G : get_depth(s, g) = get_depth(t, g)

SameAsSmallestFirst(s, t) ==
    SameBlockData(s, t) /\ SameChain(s, t) /\ SameQueryAnswers(s, t)

C39_AddOrderDoesNotMatter ==
    SameAsSmallestFirst(dag, AddSmallestFirst(GreedyPHANTOM(dag.k), dag.G))

\* C40: in CompetingChainGreedyPHANTOM, after every add, every block of the
\* combined DAG is in exactly one of the honest sub-DAG and the
\* pending-malicious queue; the queue holds only malicious blocks in the
\* order they were added, each queued block is inserted into the honest
\* sub-DAG exactly once and in that order, and (honest blocks naming a
\* malicious block as parent only once it is released or due for release)
\* every block enters the honest sub-DAG after all of its parents.
Pending(c) == c.malicious_blocks_to_add_to_honest_dag

InOneOfHonestDagAndQueue(c) ==
    /\ DOMAIN c.honest_dag.G \cap Range(Pending(c)) = {}
    /\ DOMAIN c.honest_dag.G \cup Range(Pending(c)) = DOMAIN c.dag.G

QueueInAddOrder(c) ==
    SelectSeq(c.dag.nodes, LAMBDA g : g \in Range(Pending(c))) = Pending(c)

InsertedOnce(c) ==
    \A i, j \in 1 .. Len(c.honest_dag.nodes) :
        i # j => c.honest_dag.nodes[i] # c.honest_dag.nodes[j]

HonestDagParentsFirst(c) ==
    \A i \in 1 .. Len(c.honest_dag.nodes) :
        c.dag.G[c.honest_dag.nodes[i]].parents
            \subseteq {c.honest_dag.nodes[j] : j \in 1 .. i - 1}

\* the blocks that wait before or after the step, in the order of their adds
WaitingInStep ==
    SelectSeq(cc'.dag.nodes, LAMBDA g : g \in Range(Pending(cc)) \cup Range(Pending(cc')))

\* the blocks the step inserts into the honest sub-DAG, in order
InsertedInStep ==
    SubSeq(cc'.honest_dag.nodes, Len(cc.honest_dag.nodes) + 1, Len(cc'.honest_dag.nodes))

ReleasedInQueueOrder ==
    /\ Len(cc'.honest_dag.nodes) >= Len(cc.honest_dag.nodes)
    /\ SubSeq(cc'.honest_dag.nodes, 1, Len(cc.honest_dag.nodes)) = cc.honest_dag.nodes
    /\ WaitingInStep
         = SelectSeq(InsertedInStep, LAMBDA g : g \in Range(WaitingInStep)) \o Pending(cc')

OnlyMaliciousBlocksQueued ==
    \A global_id \in Range(Pending(cc')) \ Range(Pending(cc)) :
        \E parents \in SUBSET GlobalIDs :
            /\ CCAdd(global_id, parents, TRUE)
            /\ Pending(cc') = Append(Pending(cc), global_id)

C40_HonestDagAndQueue ==
    /\ [](/\ InOneOfHonestDagAndQueue(cc)
          /\ QueueInAddOrder(cc)
          /\ InsertedOnce(cc)
          /\ HonestDagParentsFirst(cc))
    /\ [][ReleasedInQueueOrder /\ OnlyMaliciousBlocksQueued]_vars

\* every block is in the honest sub-DAG, and one of them got there after a
\* block that was added later than it: it waited in the queue
C40_Witness ==
    /\ Len(cc.dag.nodes) >= 3
    /\ Pending(cc) = <<>>
    /\ cc.honest_dag.nodes # cc.dag.nodes
    /\ Range(cc.honest_dag.nodes) = Range(cc.dag.nodes)

====
